---- MODULE Spec2Model ----
(***************************************************************************)
(* Momentum scoring and clustering pipeline of MomentumPumpScanner         *)
(* (src/src/scanners/momentum_pump_scanner.py).                            *)
(*                                                                         *)
(* Numbers: Python floats are modelled as exact rationals [n, d] in lowest *)
(* terms (d > 0), so sums and quotients are exact. Time is in seconds.     *)
(* Text: a Python str is a sequence of one-character strings, so that      *)
(* lower() and the substring test `kw in text` are computed, not assumed.  *)
(* Object references: a cluster's 'events' list holds references to the    *)
(* event dicts of momentum_events; a reference is the event's index.       *)
(***************************************************************************)
EXTENDS Integers, Sequences, FiniteSets, TLC

\* ------------------------------------------------------------------ bounds
MaxPosts == 2
MaxTicks == 1
MaxSymbols == 1
MaxEvents == 3
MaxCalls == 2
MaxRounds == 2
MaxMessages == 41
MaxClock == 2

\* ------------------------------------------------- rational arithmetic
Abs(x) == IF x < 0 THEN -x ELSE x

RECURSIVE GCD(_, _)
GCD(a, b) == IF b = 0 THEN a ELSE GCD(b, a % b)

\* the rational n/d (d > 0) in lowest terms
Rat(n, d) ==
  LET g == GCD(Abs(n), d) IN [n |-> n \div g, d |-> d \div g]

Int2Rat(k) == [n |-> k, d |-> 1]

RatAdd(a, b) == Rat(a.n * b.d + b.n * a.d, a.d * b.d)

\* a / b for b > 0 (every divisor of the program is positive)
RatDiv(a, b) == Rat(a.n * b.d, a.d * b.n)

RatLess(a, b) == a.n * b.d < b.n * a.d

RatLeq(a, b) == a.n * b.d <= b.n * a.d

\* ------------------------------------------------------------------ text
UpperCase == <<"A","B","C","D","E","F","G","H","I","J","K","L","M",
               "N","O","P","Q","R","S","T","U","V","W","X","Y","Z">>
LowerCase == <<"a","b","c","d","e","f","g","h","i","j","k","l","m",
               "n","o","p","q","r","s","t","u","v","w","x","y","z">>

\* the lower-case letter of each upper-case letter
LowerOf ==
  [c \in { UpperCase[i] : i \in 1..Len(UpperCase) } |->
     LowerCase[CHOOSE i \in 1..Len(UpperCase) : UpperCase[i] = c]]

\* str.lower() on one character
LowerChar(c) == IF c \in DOMAIN LowerOf THEN LowerOf[c] ELSE c

\* str.lower()
Lower(s) == SubSeq([i \in 1..Len(s) |-> LowerChar(s[i])], 1, Len(s))

\* `kw in text` on strings: kw occurs as a contiguous substring
Contains(text, kw) ==
  \E i \in 1..(Len(text) - Len(kw) + 1) : SubSeq(text, i, i + Len(kw) - 1) = kw

\* any(word in text for word in words)
AnyIn(words, text) == \E i \in 1..Len(words) : Contains(text, words[i])

\* f"{a} {b}"
Fmt2(a, b) == a \o <<" ">> \o b

\* " ".join(parts)
RECURSIVE Join(_)
Join(parts) ==
  IF Len(parts) = 0 THEN <<>>
  ELSE IF Len(parts) = 1 THEN parts[1]
  ELSE parts[1] \o <<" ">> \o Join(Tail(parts))

\* ------------------------------------------------- keyword tables
KW_squeeze_play == <<<<"s","q","u","e","e","z","e">>, <<"s","h","o","r","t">>, <<"g","a","m","m","a">>>>
KW_pump_hype == <<<<"p","u","m","p">>, <<"m","o","o","n">>, <<"r","o","c","k","e","t">>>>
KW_ma_rumor == <<<<"m","e","r","g","e","r">>, <<"a","c","q","u","i","s","i","t","i","o","n">>, <<"b","u","y","o","u","t">>>>
KW_earnings_play == <<<<"e","a","r","n","i","n","g","s">>, <<"r","e","v","e","n","u","e">>, <<"b","e","a","t">>>>
KW_biotech_catalyst == <<<<"f","d","a">>, <<"a","p","p","r","o","v","a","l">>, <<"c","l","i","n","i","c","a","l">>>>
KW_crypto_momentum == <<<<"c","r","y","p","t","o">>, <<"b","i","t","c","o","i","n">>, <<"d","e","f","i">>>>
SKW_tech == <<<<"t","e","c","h">>, <<"s","o","f","t","w","a","r","e">>, <<"s","a","a","s">>, <<"c","l","o","u","d">>, <<"a","i">>>>
SKW_biotech == <<<<"b","i","o","t","e","c","h">>, <<"p","h","a","r","m","a">>, <<"d","r","u","g">>, <<"c","l","i","n","i","c","a","l">>>>
SKW_energy == <<<<"o","i","l">>, <<"e","n","e","r","g","y">>, <<"s","o","l","a","r">>, <<"r","e","n","e","w","a","b","l","e">>>>
SKW_finance == <<<<"b","a","n","k">>, <<"f","i","n","a","n","c","i","a","l">>, <<"f","i","n","t","e","c","h">>, <<"p","a","y","m","e","n","t">>>>
SKW_retail == <<<<"r","e","t","a","i","l">>, <<"c","o","n","s","u","m","e","r">>, <<"s","t","o","r","e">>, <<"e","c","o","m","m","e","r","c","e">>>>
SKW_crypto == <<<<"c","r","y","p","t","o">>, <<"b","i","t","c","o","i","n">>, <<"e","t","h","e","r","e","u","m">>, <<"d","e","f","i">>>>

\* the characters of a theme name, for the substring tests on c['theme']
ThemeChars(theme) ==
  CASE theme = "squeeze_play" -> <<"s","q","u","e","e","z","e","_","p","l","a","y">>
    [] theme = "pump_hype" -> <<"p","u","m","p","_","h","y","p","e">>
    [] theme = "ma_rumor" -> <<"m","a","_","r","u","m","o","r">>
    [] theme = "earnings_play" -> <<"e","a","r","n","i","n","g","s","_","p","l","a","y">>
    [] theme = "biotech_catalyst" -> <<"b","i","o","t","e","c","h","_","c","a","t","a","l","y","s","t">>
    [] theme = "crypto_momentum" -> <<"c","r","y","p","t","o","_","m","o","m","e","n","t","u","m">>
    [] theme = "sector_tech" -> <<"s","e","c","t","o","r","_","t","e","c","h">>
    [] theme = "sector_biotech" -> <<"s","e","c","t","o","r","_","b","i","o","t","e","c","h">>
    [] theme = "sector_energy" -> <<"s","e","c","t","o","r","_","e","n","e","r","g","y">>
    [] theme = "sector_finance" -> <<"s","e","c","t","o","r","_","f","i","n","a","n","c","e">>
    [] theme = "sector_retail" -> <<"s","e","c","t","o","r","_","r","e","t","a","i","l">>
    [] theme = "sector_crypto" -> <<"s","e","c","t","o","r","_","c","r","y","p","t","o">>

\* sector_keywords.items(), in the dict's insertion order
sector_keywords == <<
  [sector |-> "tech", keywords |-> SKW_tech],
  [sector |-> "biotech", keywords |-> SKW_biotech],
  [sector |-> "energy", keywords |-> SKW_energy],
  [sector |-> "finance", keywords |-> SKW_finance],
  [sector |-> "retail", keywords |-> SKW_retail],
  [sector |-> "crypto", keywords |-> SKW_crypto] >>

\* f"sector_{sector}"
SectorTag(sector) ==
  CASE sector = "tech" -> "sector_tech"
    [] sector = "biotech" -> "sector_biotech"
    [] sector = "energy" -> "sector_energy"
    [] sector = "finance" -> "sector_finance"
    [] sector = "retail" -> "sector_retail"
    [] sector = "crypto" -> "sector_crypto"

\* ------------------------------------------------- Event Normalizer
Half == Rat(1, 2)

\* _calculate_post_momentum with the comments counted once, not twice
_calculate_post_momentum_SingleComments(post, t) ==
  LET created == post.created_utc
      age_hours == IF created # 0
                   THEN RatDiv(Int2Rat(t - created), Int2Rat(3600))
                   ELSE Int2Rat(24)
      clamped == IF RatLess(age_hours, Half) THEN Half ELSE age_hours
      engagement == post.score + post.num_comments
      momentum == RatDiv(Int2Rat(engagement), clamped)
  IN RatDiv(momentum, Int2Rat(50))

\* _calculate_post_momentum with the age of an undated post taken from the
\* clock instead of the 24-hour default
_calculate_post_momentum_AgedDefault(post, t) ==
  LET created == post.created_utc
      age_hours == RatDiv(Int2Rat(t - created), Int2Rat(3600))
      clamped == IF RatLess(age_hours, Half) THEN Half ELSE age_hours
      engagement == post.score + (post.num_comments * 2)
      momentum == RatDiv(Int2Rat(engagement), clamped)
  IN RatDiv(momentum, Int2Rat(50))

\* _calculate_post_momentum(post), t being the value time.time() returns
_calculate_post_momentum(post, t) ==
  LET created == post.created_utc
      age_hours == IF created # 0
                   THEN RatDiv(Int2Rat(t - created), Int2Rat(3600))
                   ELSE Int2Rat(24)
      clamped == IF RatLess(age_hours, Half) THEN Half ELSE age_hours
      engagement == post.score + (post.num_comments * 2)
      momentum == RatDiv(Int2Rat(engagement), clamped)
  IN RatDiv(momentum, Int2Rat(50))

\* lines 227-229: score + (comments * 2) raises TypeError when a field is None
MomentumRaises(post) == "score" \in post.nulls \/ "num_comments" \in post.nulls

\* the loop body of lines 157-165 without the floor test
PostEvents_NoFloor(post, t) ==
  << [type |-> "reddit_surge", content |-> post,
      momentum_score |-> _calculate_post_momentum(post, t),
      platform |-> "reddit"] >>

\* the loop body of lines 157-165 with a post at the floor kept
PostEvents_AtFloor(post, t) ==
  LET momentum_score == _calculate_post_momentum(post, t)
  IN IF RatLeq(Half, momentum_score)
     THEN << [type |-> "reddit_surge", content |-> post,
              momentum_score |-> momentum_score, platform |-> "reddit"] >>
     ELSE << >>

\* the loop body of lines 157-165: the events one post adds
PostEvents(post, t) ==
  LET momentum_score == _calculate_post_momentum(post, t)
  IN IF RatLess(Half, momentum_score)
     THEN << [type |-> "reddit_surge", content |-> post,
              momentum_score |-> momentum_score, platform |-> "reddit"] >>
     ELSE << >>

\* sorted(messages, key=created_at, reverse=True): stable, descending.
\* Insert x behind every element whose key is >= its own.
RECURSIVE InsertDesc(_, _)
InsertDesc(sorted, x) ==
  IF Len(sorted) = 0 THEN << x >>
  ELSE IF Head(sorted).created_at < x.created_at THEN << x >> \o sorted
  ELSE << Head(sorted) >> \o InsertDesc(Tail(sorted), x)

RECURSIVE SortByTimeDesc(_, _)
SortByTimeDesc(messages, acc) ==
  IF Len(messages) = 0 THEN acc
  ELSE SortByTimeDesc(Tail(messages), InsertDesc(acc, Head(messages)))

\* the loop of _group_by_time with a group closed only above 20 messages
RECURSIVE GroupLoop_Above20(_, _, _)
GroupLoop_Above20(msgs, groups, current_group) ==
  IF Len(msgs) = 0
  THEN IF Len(current_group) > 0 THEN Append(groups, current_group) ELSE groups
  ELSE IF Len(current_group) = 0
       THEN GroupLoop_Above20(Tail(msgs), groups, << Head(msgs) >>)
       ELSE LET grown == Append(current_group, Head(msgs))
            IN IF Len(grown) > 20
               THEN GroupLoop_Above20(Tail(msgs), Append(groups, grown), << >>)
               ELSE GroupLoop_Above20(Tail(msgs), groups, grown)

\* the loop of _group_by_time over sorted_msgs, with its two locals
RECURSIVE GroupLoop(_, _, _)
GroupLoop(msgs, groups, current_group) ==
  IF Len(msgs) = 0
  THEN IF Len(current_group) > 0 THEN Append(groups, current_group) ELSE groups
  ELSE IF Len(current_group) = 0
       THEN GroupLoop(Tail(msgs), groups, << Head(msgs) >>)
       ELSE LET grown == Append(current_group, Head(msgs))
            IN IF Len(grown) >= 20
               THEN GroupLoop(Tail(msgs), Append(groups, grown), << >>)
               ELSE GroupLoop(Tail(msgs), groups, grown)

_group_by_time(messages, minutes) ==
  IF Len(messages) = 0 THEN << >>
  ELSE GroupLoop(SortByTimeDesc(messages, << >>), << >>, << >>)

\* the burst loop with a group of 10 messages counted as a burst
RECURSIVE BurstEvents_FromTen(_)
BurstEvents_FromTen(time_groups) ==
  IF Len(time_groups) = 0 THEN << >>
  ELSE LET time_group == Head(time_groups)
       IN (IF Len(time_group) >= 10
           THEN << [type |-> "stocktwits_burst", content |-> time_group,
                    momentum_score |-> Rat(Len(time_group), 5),
                    platform |-> "stocktwits"] >>
           ELSE << >>) \o BurstEvents_FromTen(Tail(time_groups))

\* lines 179-186: the burst events of one symbol's time groups
RECURSIVE BurstEvents(_)
BurstEvents(time_groups) ==
  IF Len(time_groups) = 0 THEN << >>
  ELSE LET time_group == Head(time_groups)
       IN (IF Len(time_group) > 10
           THEN << [type |-> "stocktwits_burst", content |-> time_group,
                    momentum_score |-> Rat(Len(time_group), 5),
                    platform |-> "stocktwits"] >>
           ELSE << >>) \o BurstEvents(Tail(time_groups))

\* lines 172-186: the events of the trending symbols' message streams
RECURSIVE StockTwitsEvents(_)
StockTwitsEvents(streams) ==
  IF Len(streams) = 0 THEN << >>
  ELSE BurstEvents(_group_by_time(Head(streams), 30))
       \o StockTwitsEvents(Tail(streams))

\* FourChanBizScraper has find_pump_threads but no fetch_pump_threads: the
\* call of line 193 raises AttributeError, which line 203 catches
HasFetchPumpThreads == FALSE

\* lines 194-202: the events of the 4chan threads
RECURSIVE ThreadEvents(_)
ThreadEvents(threads) ==
  IF Len(threads) = 0 THEN << >>
  ELSE LET thread == Head(threads)
           replies == thread.replies
       IN (IF replies > 50
           THEN << [type |-> "4chan_hot_thread", content |-> thread,
                    momentum_score |-> Rat(replies, 25), platform |-> "4chan"] >>
           ELSE << >>) \o ThreadEvents(Tail(threads))

\* ------------------------------------------------- Theme Classifier
\* [m.get('body', '') for m in content]
RECURSIVE Bodies(_)
Bodies(content) ==
  IF Len(content) = 0 THEN << >>
  ELSE << Head(content).body >> \o Bodies(Tail(content))

\* lines 272-280: the text of an event, by its type
EventText(event) ==
  LET content == event.content
  IN CASE event.type = "reddit_surge" -> Fmt2(content.title, content.selftext)
       [] event.type = "stocktwits_burst" -> Join(Bodies(content))
       [] event.type = "4chan_hot_thread" ->
            Fmt2(content.subject, content.comment)

\* lines 319-321: for sector, keywords in sector_keywords.items()
RECURSIVE SectorLoop(_, _)
SectorLoop(table, text_lower) ==
  IF Len(table) = 0 THEN << >>
  ELSE (IF AnyIn(Head(table).keywords, text_lower)
        THEN << SectorTag(Head(table).sector) >>
        ELSE << >>) \o SectorLoop(Tail(table), text_lower)

_extract_sectors(text) == SectorLoop(sector_keywords, Lower(text))

\* _extract_themes testing the keywords against the text as written
_extract_themes_NoLower(event) ==
  LET text == EventText(event)
      text_lower == text
  IN (IF AnyIn(KW_squeeze_play, text_lower) THEN << "squeeze_play" >> ELSE << >>)
     \o (IF AnyIn(KW_pump_hype, text_lower) THEN << "pump_hype" >> ELSE << >>)
     \o (IF AnyIn(KW_ma_rumor, text_lower) THEN << "ma_rumor" >> ELSE << >>)
     \o (IF AnyIn(KW_earnings_play, text_lower) THEN << "earnings_play" >> ELSE << >>)
     \o (IF AnyIn(KW_biotech_catalyst, text_lower) THEN << "biotech_catalyst" >> ELSE << >>)
     \o (IF AnyIn(KW_crypto_momentum, text_lower) THEN << "crypto_momentum" >> ELSE << >>)
     \o _extract_sectors(text)

_extract_themes(event) ==
  LET text == EventText(event)
      text_lower == Lower(text)
  IN (IF AnyIn(KW_squeeze_play, text_lower) THEN << "squeeze_play" >> ELSE << >>)
     \o (IF AnyIn(KW_pump_hype, text_lower) THEN << "pump_hype" >> ELSE << >>)
     \o (IF AnyIn(KW_ma_rumor, text_lower) THEN << "ma_rumor" >> ELSE << >>)
     \o (IF AnyIn(KW_earnings_play, text_lower) THEN << "earnings_play" >> ELSE << >>)
     \o (IF AnyIn(KW_biotech_catalyst, text_lower) THEN << "biotech_catalyst" >> ELSE << >>)
     \o (IF AnyIn(KW_crypto_momentum, text_lower) THEN << "crypto_momentum" >> ELSE << >>)
     \o _extract_sectors(text)

\* ------------------------------------------------- Cluster Aggregator
\* theme_groups[theme] = [event] in place of append
GroupAppend_Overwrite(groups, theme, ref) ==
  IF \E i \in 1..Len(groups) : groups[i].theme = theme
  THEN [i \in 1..Len(groups) |->
          IF groups[i].theme = theme
          THEN [groups[i] EXCEPT !.events = << ref >>]
          ELSE groups[i]]
  ELSE Append(groups, [theme |-> theme, events |-> << ref >>])

\* theme_groups[theme].append(event) on a defaultdict(list); the dict is a
\* sequence of its items in insertion order, ref is the event's index
GroupAppend(groups, theme, ref) ==
  IF \E i \in 1..Len(groups) : groups[i].theme = theme
  THEN [i \in 1..Len(groups) |->
          IF groups[i].theme = theme
          THEN [groups[i] EXCEPT !.events = Append(@, ref)]
          ELSE groups[i]]
  ELSE Append(groups, [theme |-> theme, events |-> << ref >>])

\* lines 246-247: for theme in themes
RECURSIVE ThemeLoop(_, _, _)
ThemeLoop(themes, ref, groups) ==
  IF Len(themes) = 0 THEN groups
  ELSE ThemeLoop(Tail(themes), ref, GroupAppend(groups, Head(themes), ref))

\* lines 242-247: for event in events, from the event at index ref on
RECURSIVE EventLoop(_, _, _)
EventLoop(events, ref, groups) ==
  IF ref > Len(events) THEN groups
  ELSE EventLoop(events, ref + 1,
                 ThemeLoop(_extract_themes(events[ref]), ref, groups))

ThemeGroups(events) == EventLoop(events, 1, << >>)

\* sum(e['momentum_score'] for e in events): every event, member or not
RECURSIVE SumMomentum_AllEvents(_, _)
SumMomentum_AllEvents(events, refs) ==
  IF Len(events) = 0 THEN Int2Rat(0)
  ELSE RatAdd(Head(events).momentum_score,
              SumMomentum_AllEvents(Tail(events), refs))

\* sum(e['momentum_score'] for e in theme_events)
RECURSIVE SumMomentum(_, _)
SumMomentum(events, refs) ==
  IF Len(refs) = 0 THEN Int2Rat(0)
  ELSE RatAdd(events[Head(refs)].momentum_score, SumMomentum(events, Tail(refs)))

\* set(e['platform'] for e in theme_events)
Platforms(events, refs) == { events[refs[i]].platform : i \in 1..Len(refs) }

\* lines 250-259 with a minimum cluster size of 1
RECURSIVE ClusterLoop_Single(_, _)
ClusterLoop_Single(events, groups) ==
  IF Len(groups) = 0 THEN << >>
  ELSE LET theme_events == Head(groups).events
       IN (IF Len(theme_events) >= 1
           THEN << [theme |-> Head(groups).theme,
                    events |-> theme_events,
                    total_momentum |-> SumMomentum(events, theme_events),
                    platform_diversity |->
                      Cardinality(Platforms(events, theme_events))] >>
           ELSE << >>) \o ClusterLoop_Single(events, Tail(groups))

\* lines 250-259: for theme, theme_events in theme_groups.items()
RECURSIVE ClusterLoop(_, _)
ClusterLoop(events, groups) ==
  IF Len(groups) = 0 THEN << >>
  ELSE LET theme_events == Head(groups).events
       IN (IF Len(theme_events) >= 2
           THEN << [theme |-> Head(groups).theme,
                    events |-> theme_events,
                    total_momentum |-> SumMomentum(events, theme_events),
                    platform_diversity |->
                      Cardinality(Platforms(events, theme_events))] >>
           ELSE << >>) \o ClusterLoop(events, Tail(groups))

\* clusters.sort(key=total_momentum, reverse=True): stable, descending
RECURSIVE InsertCluster(_, _)
InsertCluster(sorted, c) ==
  IF Len(sorted) = 0 THEN << c >>
  ELSE IF RatLess(Head(sorted).total_momentum, c.total_momentum)
       THEN << c >> \o sorted
       ELSE << Head(sorted) >> \o InsertCluster(Tail(sorted), c)

RECURSIVE SortClusters(_, _)
SortClusters(clusters, acc) ==
  IF Len(clusters) = 0 THEN acc
  ELSE SortClusters(Tail(clusters), InsertCluster(acc, Head(clusters)))

\* _cluster_momentum without line 262
_cluster_momentum_Unsorted(events) == ClusterLoop(events, ThemeGroups(events))

_cluster_momentum(events) ==
  SortClusters(ClusterLoop(events, ThemeGroups(events)), << >>)

\* ------------------------------------------------- Risk Summarizer
\* theme_stats[theme]['count'] += 1: clusters counted, not their events
StatsAdd_CountClusters(theme_stats, theme, n, m) ==
  IF \E i \in 1..Len(theme_stats) : theme_stats[i].theme = theme
  THEN [i \in 1..Len(theme_stats) |->
          IF theme_stats[i].theme = theme
          THEN [theme_stats[i] EXCEPT !.count = @ + 1,
                                      !.total_momentum = RatAdd(@, m)]
          ELSE theme_stats[i]]
  ELSE Append(theme_stats,
              [theme |-> theme, count |-> 0 + 1,
               total_momentum |-> RatAdd(Int2Rat(0), m)])

\* theme_stats[theme]['count'] += n; theme_stats[theme]['total_momentum'] += m
\* on a defaultdict, kept as the sequence of its items in insertion order
StatsAdd(theme_stats, theme, n, m) ==
  IF \E i \in 1..Len(theme_stats) : theme_stats[i].theme = theme
  THEN [i \in 1..Len(theme_stats) |->
          IF theme_stats[i].theme = theme
          THEN [theme_stats[i] EXCEPT !.count = @ + n,
                                      !.total_momentum = RatAdd(@, m)]
          ELSE theme_stats[i]]
  ELSE Append(theme_stats,
              [theme |-> theme, count |-> 0 + n,
               total_momentum |-> RatAdd(Int2Rat(0), m)])

RECURSIVE ThemeStatsLoop(_, _)
ThemeStatsLoop(clusters, theme_stats) ==
  IF Len(clusters) = 0 THEN theme_stats
  ELSE LET cluster == Head(clusters)
       IN ThemeStatsLoop(Tail(clusters),
            StatsAdd(theme_stats, cluster.theme, Len(cluster.events),
                     cluster.total_momentum))

_analyze_themes(clusters) == ThemeStatsLoop(clusters, << >>)

\* platform_momentum[platform] += momentum on a defaultdict(float)
PlatformAdd(platform_momentum, platform, momentum) ==
  IF \E i \in 1..Len(platform_momentum) : platform_momentum[i].platform = platform
  THEN [i \in 1..Len(platform_momentum) |->
          IF platform_momentum[i].platform = platform
          THEN [platform_momentum[i] EXCEPT !.momentum = RatAdd(@, momentum)]
          ELSE platform_momentum[i]]
  ELSE Append(platform_momentum,
              [platform |-> platform, momentum |-> RatAdd(Int2Rat(0), momentum)])

RECURSIVE PlatformLoop(_, _)
PlatformLoop(events, platform_momentum) ==
  IF Len(events) = 0 THEN platform_momentum
  ELSE PlatformLoop(Tail(events),
         PlatformAdd(platform_momentum, Head(events).platform,
                     Head(events).momentum_score))

\* the platform sums taken over the clustered events only
_analyze_platform_momentum_Clustered(events) ==
  LET clusters == _cluster_momentum(events)
      member == { i \in 1..Len(events) :
                    \E k \in 1..Len(clusters) :
                      \E r \in 1..Len(clusters[k].events) :
                        clusters[k].events[r] = i }
      index == [i \in 1..Len(events) |-> i]
      kept == SelectSeq(index, LAMBDA i : i \in member)
  IN PlatformLoop([j \in 1..Len(kept) |-> events[kept[j]]], << >>)

_analyze_platform_momentum(events) == PlatformLoop(events, << >>)

NoRisk ==
  [high_risk_patterns |-> 0, coordinated_platforms |-> 0,
   volume_spikes |-> 0, new_account_ratio |-> Int2Rat(0)]

Max(a, b) == IF a >= b THEN a ELSE b

\* lines 463-470 with `len(platforms) >= 2`
RECURSIVE CoordinationLoop_AtLeast2(_, _, _)
CoordinationLoop_AtLeast2(clusters, events, risk_indicators) ==
  IF Len(clusters) = 0 THEN risk_indicators
  ELSE LET platforms == Platforms(events, Head(clusters).events)
       IN CoordinationLoop_AtLeast2(Tail(clusters), events,
            IF Cardinality(platforms) >= 2
            THEN [risk_indicators EXCEPT
                    !.high_risk_patterns = @ + 1,
                    !.coordinated_platforms = Max(@, Cardinality(platforms))]
            ELSE risk_indicators)

\* lines 463-470: for cluster in clusters
RECURSIVE CoordinationLoop(_, _, _)
CoordinationLoop(clusters, events, risk_indicators) ==
  IF Len(clusters) = 0 THEN risk_indicators
  ELSE LET platforms == Platforms(events, Head(clusters).events)
       IN CoordinationLoop(Tail(clusters), events,
            IF Cardinality(platforms) > 2
            THEN [risk_indicators EXCEPT
                    !.high_risk_patterns = @ + 1,
                    !.coordinated_platforms = Max(@, Cardinality(platforms))]
            ELSE risk_indicators)

\* line 473 with `>= 5.0`
HighMomentumRefs_AtLeast5(events) ==
  { i \in 1..Len(events) : RatLeq(Int2Rat(5), events[i].momentum_score) }

\* line 473: [e for e in events if e['momentum_score'] > 5.0]
HighMomentumRefs(events) ==
  { i \in 1..Len(events) : RatLess(Int2Rat(5), events[i].momentum_score) }

\* line 477 testing the themes of every event instead of the clusters' themes
_detect_pump_patterns_AnyEvent(clusters, events) ==
  LET coordinated == CoordinationLoop(clusters, events, NoRisk)
      spiked == [coordinated EXCEPT
                   !.volume_spikes = Cardinality(HighMomentumRefs(events))]
  IN IF \E i \in 1..Len(events) :
          LET themes == _extract_themes(events[i])
          IN \E j \in 1..Len(themes) :
               \/ Contains(ThemeChars(themes[j]), <<"s","q","u","e","e","z","e">>)
               \/ Contains(ThemeChars(themes[j]), <<"p","u","m","p">>)
     THEN [spiked EXCEPT !.new_account_ratio = Rat(35, 100)]
     ELSE spiked

_detect_pump_patterns(clusters, events) ==
  LET coordinated == CoordinationLoop(clusters, events, NoRisk)
      spiked == [coordinated EXCEPT
                   !.volume_spikes = Cardinality(HighMomentumRefs(events))]
  IN IF \E i \in 1..Len(clusters) :
          \/ Contains(ThemeChars(clusters[i].theme), <<"s","q","u","e","e","z","e">>)
          \/ Contains(ThemeChars(clusters[i].theme), <<"p","u","m","p">>)
     THEN [spiked EXCEPT !.new_account_ratio = Rat(35, 100)]
     ELSE spiked

\* the upper-case letter of each lower-case letter
UpperOf ==
  [c \in { LowerCase[i] : i \in 1..Len(LowerCase) } |->
     UpperCase[CHOOSE i \in 1..Len(LowerCase) : LowerCase[i] = c]]

\* str.upper() on one character
UpperChar(c) == IF c \in DOMAIN UpperOf THEN UpperOf[c] ELSE c

\* the cased characters, after which str.title() does not start a word
IsCased(c) == c \in DOMAIN UpperOf \/ c \in DOMAIN LowerOf

\* str.replace(old, new) for single characters
Replace(s, old, new) ==
  SubSeq([i \in 1..Len(s) |-> IF s[i] = old THEN new ELSE s[i]], 1, Len(s))

\* str.title(): a cased character is upper-cased when it starts a word and
\* lower-cased when it follows a cased character
Title(s) ==
  SubSeq([i \in 1..Len(s) |->
            IF i = 1 \/ ~IsCased(s[i - 1]) THEN UpperChar(s[i])
            ELSE LowerChar(s[i])],
         1, Len(s))

\* max(items, key=...) keeping the last of the greatest items
RECURSIVE MaxLoop_Last(_, _)
MaxLoop_Last(items, best) ==
  IF Len(items) = 0 THEN best
  ELSE MaxLoop_Last(Tail(items),
         IF RatLeq(best.total_momentum, Head(items).total_momentum)
         THEN Head(items) ELSE best)

\* max(theme_breakdown.items(), key=lambda x: x[1]['total_momentum']): a later
\* item replaces the best one only when its key is strictly greater
RECURSIVE MaxLoop(_, _)
MaxLoop(items, best) ==
  IF Len(items) = 0 THEN best
  ELSE MaxLoop(Tail(items),
         IF RatLess(best.total_momentum, Head(items).total_momentum)
         THEN Head(items) ELSE best)

\* lines 482-489
_get_top_theme(theme_breakdown) ==
  IF Len(theme_breakdown) = 0 THEN <<"N","o","n","e">>
  ELSE LET top_theme == MaxLoop(Tail(theme_breakdown), Head(theme_breakdown))
       IN Title(Replace(ThemeChars(top_theme.theme), "_", " "))

\* line 70 without the test of momentum_clusters
RequestsAI_Always(analyze_top, momentum_clusters) == analyze_top > 0

\* line 70: if analyze_top > 0 and momentum_clusters
RequestsAI(analyze_top, momentum_clusters) ==
  analyze_top > 0 /\ Len(momentum_clusters) > 0

\* lines 90-96 with `>= 3` and `>= 5`
Recommendation_AtLeast(risk_analysis, momentum_clusters) ==
  IF risk_analysis.high_risk_patterns >= 3 THEN "HIGH PUMP RISK"
  ELSE IF Len(momentum_clusters) >= 5 THEN "ELEVATED ACTIVITY"
  ELSE "NORMAL MARKET CHATTER"

\* lines 90-96
Recommendation(risk_analysis, momentum_clusters) ==
  IF risk_analysis.high_risk_patterns > 3 THEN "HIGH PUMP RISK"
  ELSE IF Len(momentum_clusters) > 5 THEN "ELEVATED ACTIVITY"
  ELSE "NORMAL MARKET CHATTER"

\* ------------------------------------------------- inputs of the model
T_empty == << >>
T_short == <<"G","M","E"," ","S","h","o","r","t">>
T_moon == <<"t","o"," ","t","h","e"," ","M","O","O","N">>
T_bio == <<"B","i","o","t","e","c","h"," ","F","D","A">>
T_said == <<"s","a","i","d">>
T_hello == <<"h","e","l","l","o">>
T_beat == <<"S","h","o","r","t"," ","b","e","a","t">>
T_deal == <<"S","h","o","r","t"," ","m","e","r","g","e","r"," ","b","e","a","t"," ","F","D","A">>
T_btc == <<"B","i","t","c","o","i","n"," ","p","u","m","p">>
T_all == <<"s","h","o","r","t"," ","p","u","m","p"," ","m","e","r","g","e","r"," ","b","e","a","t"," ","f","d","a"," ","d","e","f","i">>

\* the clock when a scan starts, and the step by which it may advance
Now0 == 25 * 3600
TickSeconds == 30 * 60

Post(title, selftext, score, num_comments, created_utc) ==
  [title |-> title, selftext |-> selftext, score |-> score,
   num_comments |-> num_comments, created_utc |-> created_utc,
   nulls |-> { }]

P_hour == Post(T_moon, T_empty, 100, 25, Now0 - 3600)
P_old == Post(T_hello, T_empty, 5, 0, Now0 - 36000)
P_negative == Post(T_short, T_empty, -40, 0, Now0 - 3600)
P_future == Post(T_short, T_bio, 100, 20, Now0 + 7200)
P_undated == Post(T_btc, T_empty, 1200, 300, 0)
P_floor == Post(T_moon, T_empty, 25, 0, Now0 - 3600)
\* a record whose "score" is null: post_data.get('score', 0) returns None
P_null == [Post(T_moon, T_empty, 0, 25, Now0 - 3600) EXCEPT !.nulls = { "score" }]

\* the records fetch_subreddit_posts may return
PostPool == { P_hour, P_old, P_negative, P_future, P_undated, P_floor, P_null }

PostSeqs == UNION { [1..k -> PostPool] : k \in 0..MaxPosts }

\* n messages of a symbol stream, the i-th created at minute t0 + i
Stream(n, body_odd, body_even, t0) ==
  [i \in 1..n |-> [body |-> IF i % 2 = 1 THEN body_odd ELSE body_even,
                   created_at |-> t0 + i]]

\* n messages of a slow stream, one every gap minutes
SparseStream(n, body_odd, body_even, t0, gap) ==
  [i \in 1..n |-> [body |-> IF i % 2 = 1 THEN body_odd ELSE body_even,
                   created_at |-> t0 + gap * i]]

\* the message lists get_symbol_stream(symbol, limit=30) may return: the
\* latest messages of the symbol, whatever their age (created_at counts the
\* minutes of the clock whose seconds time.time() returns)
StreamPool ==
  << Stream(0, T_empty, T_empty, 0),
     SparseStream(11, T_moon, T_hello, 100, 10),
     Stream(30, T_btc, T_empty, 300) >>

\* the streams of the trending symbols, one choice of stream per symbol
StreamChoices == UNION { [1..k -> 1..Len(StreamPool)] : k \in 0..MaxSymbols }

Thread(subject, comment, replies) ==
  [subject |-> subject, comment |-> comment, replies |-> replies]

\* threads a 4chan catalog may hold
ThreadPool ==
  << Thread(T_moon, T_deal, 100), Thread(T_hello, T_empty, 75),
     Thread(T_moon, T_empty, 50), Thread(T_all, T_empty, 125) >>

ThreadChoices == UNION { [1..k -> 1..Len(ThreadPool)] : k \in 0..MaxEvents }

\* events as the Normalizer builds them, for the Aggregator and the
\* Summarizer taken on their own
EventPool ==
  PostEvents(P_hour, Now0) \o PostEvents(P_future, Now0)
  \o PostEvents(Post(T_said, T_empty, 300, 0, Now0 - 3600), Now0)
  \o PostEvents(Post(T_all, T_empty, 50, 0, Now0 - 3600), Now0)
  \o BurstEvents(<< Stream(11, T_moon, T_beat, 100),
                   Stream(20, T_short, T_all, 200) >>)
  \o ThreadEvents(ThreadPool)

EventChoices == UNION { [1..k -> 1..Len(EventPool)] : k \in 0..MaxEvents }

\* ------------------------------------------------- Social Pump Scanner
\* monitor_live_pumps calls find_pump_candidates with these arguments
monitor_min_mentions == 5
monitor_top_n == 5
monitor_analyze_top == 3

\* a collections.Counter, as the list of its items in insertion order
Mention(ticker, count) == [ticker |-> ticker, count |-> count]

CounterHas(counter, ticker) ==
  \E i \in 1..Len(counter) : counter[i].ticker = ticker

\* all_tickers[ticker] += n
CounterAdd(counter, ticker, n) ==
  IF CounterHas(counter, ticker)
  THEN [i \in 1..Len(counter) |->
          IF counter[i].ticker = ticker
          THEN [counter[i] EXCEPT !.count = @ + n]
          ELSE counter[i]]
  ELSE Append(counter, Mention(ticker, n))

\* all_tickers.update(mentions)
RECURSIVE CounterUpdate(_, _)
CounterUpdate(counter, mentions) ==
  IF mentions = << >> THEN counter
  ELSE CounterUpdate(CounterAdd(counter, Head(mentions).ticker,
                                Head(mentions).count),
                     Tail(mentions))

\* str.upper() on the ticker symbols of the model
TickerUpper(ticker) ==
  CASE ticker = "gme" -> "GME"
    [] ticker = "btc" -> "BTC"
    [] OTHER -> ticker

\* lines 165-168: a hot board weighs a tenth of its posts of today
RECURSIVE HotBoardLoop(_, _)
HotBoardLoop(hot_boards, counter) ==
  IF hot_boards = << >> THEN counter
  ELSE LET board == Head(hot_boards)
           ticker == TickerUpper(board.ticker)
       IN HotBoardLoop(Tail(hot_boards),
                       IF ticker # ""
                       THEN CounterAdd(counter, ticker,
                                       board.posts_today \div 10)
                       ELSE counter)

\* lines 175-178: each of the first 30 trending symbols weighs 20
RECURSIVE TrendingLoop(_, _)
TrendingLoop(trending, counter) ==
  IF trending = << >> THEN counter
  ELSE LET ticker == TickerUpper(Head(trending).symbol)
       IN TrendingLoop(Tail(trending),
                       IF ticker # ""
                       THEN CounterAdd(counter, ticker, 20)
                       ELSE counter)

FirstThirty(trending) ==
  SubSeq(trending, 1, IF Len(trending) < 30 THEN Len(trending) ELSE 30)

\* lines 185-188: an altcoin weighs a fifth of its activity
RECURSIVE CryptoLoop(_, _)
CryptoLoop(crypto_trending, counter) ==
  IF crypto_trending = << >> THEN counter
  ELSE LET crypto == Head(crypto_trending)
           ticker == TickerUpper(crypto.ticker)
       IN CryptoLoop(Tail(crypto_trending),
                     IF ticker # ""
                     THEN CounterAdd(counter, ticker, crypto.activity \div 5)
                     ELSE counter)

\* lines 58-61: the tickers with at least min_mentions mentions
ActiveTickers(trending_tickers, min_mentions) ==
  SelectSeq(trending_tickers, LAMBDA item : item.count >= min_mentions)

\* sorted(..., key=count, reverse=True) is stable: equal counts keep their
\* order
RECURSIVE InsertByCount(_, _)
InsertByCount(sorted, item) ==
  IF sorted = << >> THEN << item >>
  ELSE IF Head(sorted).count >= item.count
       THEN << Head(sorted) >> \o InsertByCount(Tail(sorted), item)
       ELSE << item >> \o sorted

RECURSIVE SortByCount(_, _)
SortByCount(items, sorted) ==
  IF items = << >> THEN sorted
  ELSE SortByCount(Tail(items), InsertByCount(sorted, Head(items)))

\* line 65: the top_n most mentioned active tickers
TopTickers(active_tickers, top_n) ==
  LET ranked == SortByCount(active_tickers, << >>)
  IN SubSeq(ranked, 1, IF Len(ranked) < top_n THEN Len(ranked) ELSE top_n)

\* SocialMediaAggregator.collect_pump_data: the futures dict in the order
\* of its insertions
AllSources ==
  << "reddit", "stocktwits", "twitter", "fourchan", "investorshub",
     "discord", "telegram", "bitcointalk" >>

SourceNames == { AllSources[i] : i \in 1..Len(AllSources) }

crypto_symbols ==
  { "BTC", "ETH", "BNB", "SOL", "ADA", "DOGE", "SHIB",
    "MATIC", "AVAX", "LINK", "UNI", "XRP", "LTC" }

_is_crypto(ticker) == TickerUpper(ticker) \in crypto_symbols

Futures(ticker) ==
  IF _is_crypto(ticker) THEN AllSources
  ELSE SelectSeq(AllSources, LAMBDA source : source # "bitcointalk")

\* what the fetch of one source does: it returns data ("data"); it returns
\* nothing, or it raises inside _get_*_data, which catches the exception
\* and returns {} ("empty", "raises"); or it is still running when
\* future.result(timeout=30) gives up ("timeout")
FetchOutcomes == { "data", "empty", "raises", "timeout" }

\* a collection loop that gives up at the first source without data
RECURSIVE ResultLoop_StopAtFailure(_, _, _)
ResultLoop_StopAtFailure(futures, outcome, sources) ==
  IF futures = << >> THEN sources
  ELSE IF outcome[Head(futures)] = "data"
       THEN ResultLoop_StopAtFailure(Tail(futures), outcome,
                                     Append(sources, Head(futures)))
       ELSE sources

\* lines 72-83: `for source, future in futures.items()`. A TimeoutError is
\* caught by `except Exception`, an empty result fails `if result`; in both
\* cases the loop goes on with the next source.
RECURSIVE ResultLoop(_, _, _)
ResultLoop(futures, outcome, sources) ==
  IF futures = << >> THEN sources
  ELSE LET source == Head(futures)
           timed_out == outcome[source] = "timeout"
           result == outcome[source] = "data"
       IN ResultLoop(Tail(futures), outcome,
                     IF ~timed_out /\ result
                     THEN Append(sources, source)
                     ELSE sources)

\* the keys of all_data['sources'] that collect_pump_data returns
collect_pump_data(ticker, outcome) ==
  ResultLoop(Futures(ticker), outcome, << >>)

\* line 55: leaving the `with` block waits for every submitted fetch, also
\* for one that future.result gave up on
WaitsOnExit(ticker, outcome) ==
  \E i \in 1..Len(Futures(ticker)) : outcome[Futures(ticker)[i]] = "timeout"

HasCandidate(candidates, ticker) ==
  \E i \in 1..Len(candidates) : candidates[i].ticker = ticker

Candidate(candidates, ticker) ==
  candidates[CHOOSE i \in 1..Len(candidates) : candidates[i].ticker = ticker]

\* lines 92-115: `for ticker, _ in top_tickers[:analyze_top]`; a ticker
\* without collected data is passed over, and so is one whose analysis
\* raises
RECURSIVE AnalyzeLoop(_, _, _, _, _)
AnalyzeLoop(i, tickers, verdict, candidates, analyzed) ==
  IF i > Len(tickers) THEN analyzed
  ELSE LET ticker == tickers[i].ticker
       IN IF HasCandidate(candidates, ticker) /\ ~verdict[i].failed
          THEN AnalyzeLoop(i + 1, tickers, verdict, candidates,
                 Append(analyzed,
                   [ticker |-> ticker,
                    risk_level |-> verdict[i].risk_level,
                    pump_probability |-> verdict[i].pump_probability,
                    mention_count |-> tickers[i].count,
                    data_sources |-> Candidate(candidates, ticker).sources]))
          ELSE AnalyzeLoop(i + 1, tickers, verdict, candidates, analyzed)

\* line 118: analyzed_results.sort(key=pump_probability, reverse=True)
RECURSIVE InsertByProbability(_, _)
InsertByProbability(sorted, item) ==
  IF sorted = << >> THEN << item >>
  ELSE IF Head(sorted).pump_probability >= item.pump_probability
       THEN << Head(sorted) >> \o InsertByProbability(Tail(sorted), item)
       ELSE << item >> \o sorted

RECURSIVE SortByProbability(_, _)
SortByProbability(items, sorted) ==
  IF items = << >> THEN sorted
  ELSE SortByProbability(Tail(items), InsertByProbability(sorted, Head(items)))

\* platform_stats[platform]['tickers'] += 1
PlatformTally(platform_stats, platform) ==
  IF \E i \in 1..Len(platform_stats) : platform_stats[i].platform = platform
  THEN [i \in 1..Len(platform_stats) |->
          IF platform_stats[i].platform = platform
          THEN [platform_stats[i] EXCEPT !.tickers = @ + 1]
          ELSE platform_stats[i]]
  ELSE Append(platform_stats, [platform |-> platform, tickers |-> 1])

RECURSIVE SourcesLoop(_, _)
SourcesLoop(sources, platform_stats) ==
  IF sources = << >> THEN platform_stats
  ELSE SourcesLoop(Tail(sources), PlatformTally(platform_stats, Head(sources)))

RECURSIVE CandidateLoop(_, _)
CandidateLoop(candidates, platform_stats) ==
  IF candidates = << >> THEN platform_stats
  ELSE CandidateLoop(Tail(candidates),
                     SourcesLoop(Head(candidates).sources, platform_stats))

\* lines 333-352: the number of tickers with data of each platform (the
\* numbers of posts of the payloads are left out of the model)
_get_platform_summary(candidates) == CandidateLoop(candidates, << >>)

\* lines 121-141: the report of a scan
Report(trending_tickers, active_tickers, top, analyzed, candidates) ==
  [total_tickers_found |-> Len(trending_tickers),
   active_tickers |-> Len(active_tickers),
   top_pump_candidates |-> analyzed,
   ticker_rankings |->
     [i \in 1..Len(top) |-> [ticker |-> top[i].ticker,
                             total_mentions |-> top[i].count,
                             rank |-> i]],
   high_risk_alerts |->
     SelectSeq(analyzed, LAMBDA r : r.risk_level \in { "HIGH", "EXTREME" }),
   platform_summary |-> _get_platform_summary(candidates)]

\* data_saver line 75: datetime.now().strftime("%Y%m%d_%H%M%S") cuts the
\* time, which the model counts in half seconds, down to whole seconds
TicksPerSecond == 2

strftime(t) == t \div TicksPerSecond

\* data_saver lines 75-77: reports_dir / f"pump_report_{timestamp}.json"
pump_report_path(t) == << "reports", "pump_report", strftime(t) >>

\* no report saved
NoPath == << >>

\* the instants at which a save that begins at t may read the clock
Instants(t) == t..MaxClock

NoReport ==
  [total_tickers_found |-> 0, active_tickers |-> 0,
   top_pump_candidates |-> << >>, ticker_rankings |-> << >>,
   high_risk_alerts |-> << >>, platform_summary |-> << >>]

\* what the scrapers return to _find_trending_tickers. A scraper whose
\* request fails catches the exception and returns its empty value.
RedditPool ==
  { [failed |-> FALSE,
     returned |-> << Mention("GME", 6), Mention("BTC", 3) >>],
    [failed |-> FALSE, returned |-> << Mention("GME", 6) >>],
    [failed |-> TRUE, returned |-> << >>] }

FourChanPool ==
  { [failed |-> FALSE, returned |-> << Mention("BTC", 4) >>],
    [failed |-> TRUE, returned |-> << >>] }

HotBoardsPool ==
  { [failed |-> FALSE,
     returned |-> << [ticker |-> "gme", posts_today |-> 45] >>],
    [failed |-> TRUE, returned |-> << >>] }

TrendingPool ==
  { [failed |-> FALSE, returned |-> << [symbol |-> "btc"] >>],
    [failed |-> TRUE, returned |-> << >>] }

AltcoinPool ==
  { [failed |-> FALSE,
     returned |-> << [ticker |-> "BTC", activity |-> 12] >>],
    [failed |-> TRUE, returned |-> << >>] }

\* what the fetches of one collect_pump_data call do
AllData == [source \in SourceNames |-> "data"]

Pending == [source \in SourceNames |-> "pending"]

OutcomePool ==
  { AllData,
    [AllData EXCEPT !["reddit"] = "raises"],
    [AllData EXCEPT !["stocktwits"] = "timeout"],
    [AllData EXCEPT !["twitter"] = "empty", !["bitcointalk"] = "raises"] }

\* what analyst.analyze returns for a candidate, or that it raises
AnalysisPool ==
  { [failed |-> FALSE, risk_level |-> "HIGH", pump_probability |-> 80],
    [failed |-> FALSE, risk_level |-> "LOW", pump_probability |-> 20],
    [failed |-> TRUE, risk_level |-> "", pump_probability |-> 0] }

\* ------------------------------------------------- the scan
VARIABLES pc, now, ticks, hot_posts, next_post, scored, momentum_events,
          theme_groups, momentum_clusters, theme_breakdown,
          platform_momentum, risk_analysis, results,
          calls, replay, symbol_streams, previous, pump_threads,
          messages, time_groups,
          mpc, round, interrupted, fetched, all_tickers, top_tickers,
          next_future, worker, taken, candidate_data, analyzed_results,
          report, errors, wall_clock, report_path

\* the SocialPumpScanner: where monitor_live_pumps stands, the scan rounds
\* it has started, whether the user has pressed Ctrl+C, the local
\* variables of the running find_pump_candidates, the rounds that line 392
\* logged as failed, the time since the scan began and the path of the
\* scan report
socialVars == << mpc, round, interrupted, fetched, all_tickers, top_tickers,
                 next_future, worker, taken, candidate_data,
                 analyzed_results, report, errors, wall_clock, report_path >>

\* the log of failed rounds, the clock and the saved scan report
saverVars == << errors, wall_clock, report_path >>

vars == << pc, now, ticks, hot_posts, next_post, scored, momentum_events,
           theme_groups, momentum_clusters, theme_breakdown,
           platform_momentum, risk_analysis, results,
           calls, replay, symbol_streams, previous, pump_threads,
           messages, time_groups, socialVars >>

\* what the scrapers hold for the scan: the threads find_pump_threads
\* returns, and the messages of a trending symbol with their time groups
streamVars == << pump_threads, messages, time_groups >>

\* the locals of find_pump_candidates before its first statement
FreshScan ==
  /\ fetched = << >>
  /\ all_tickers = << >>
  /\ top_tickers = << >>
  /\ next_future = 1
  /\ worker = << >>
  /\ taken = << >>
  /\ candidate_data = << >>
  /\ analyzed_results = << >>
  /\ report = NoReport
  /\ wall_clock = 0
  /\ report_path = NoPath

\* no SocialPumpScanner is monitoring
NoMonitor ==
  /\ mpc = "off"
  /\ round = 0
  /\ interrupted = FALSE
  /\ errors = 0
  /\ FreshScan

\* the number of the current call of find_momentum_pumps on the scanner,
\* whether the scrapers return to it the records of the call before, and
\* what that call scored and returned
callVars == << calls, replay, previous >>

NoPrevious == [scored |-> << >>, summary |-> << >>]

NoResults ==
  [momentum_events |-> 0, clusters_found |-> 0, theme_breakdown |-> << >>,
   platform_momentum |-> << >>, top_theme |-> << >>,
   peak_time |-> "", high_risk_patterns |-> 0, coordinated_platforms |-> 0,
   volume_spikes |-> 0, new_account_ratio |-> Int2Rat(0),
   recommendation |-> "", ai_analysis |-> FALSE]

\* a scanner on which find_momentum_pumps has just been called
Init ==
  /\ pc = "fetch"
  /\ now = Now0
  /\ ticks = 0
  /\ hot_posts = << >>
  /\ next_post = 1
  /\ scored = << >>
  /\ momentum_events = << >>
  /\ theme_groups = << >>
  /\ momentum_clusters = << >>
  /\ theme_breakdown = << >>
  /\ platform_momentum = << >>
  /\ risk_analysis = NoRisk
  /\ results = NoResults
  /\ calls = 1
  /\ replay = FALSE
  /\ symbol_streams = << >>
  /\ previous = NoPrevious
  /\ pump_threads = << >>
  /\ messages = << >>
  /\ time_groups = << >>
  /\ NoMonitor

\* lines 109-154: the posts of the subreddits are collected in hot_posts
FetchReddit ==
  /\ pc = "fetch"
  /\ \E posts \in PostSeqs :
       /\ replay => posts = hot_posts
       /\ hot_posts' = posts
  /\ pc' = IF Len(hot_posts') = 0 THEN "stocktwits" ELSE "reddit"
  /\ UNCHANGED << now, ticks, next_post, scored, momentum_events, theme_groups,
                  momentum_clusters, theme_breakdown, platform_momentum,
                  risk_analysis, results, symbol_streams >>
  /\ UNCHANGED callVars
  /\ UNCHANGED socialVars
  /\ UNCHANGED streamVars

\* the clock advances before the next read of time.time()
Tick ==
  /\ pc = "reddit"
  /\ ticks < MaxTicks
  /\ ticks' = ticks + 1
  /\ now' = now + TickSeconds
  /\ UNCHANGED << pc, hot_posts, next_post, scored, momentum_events,
                  theme_groups, momentum_clusters, theme_breakdown,
                  platform_momentum, risk_analysis, results, symbol_streams >>
  /\ UNCHANGED callVars
  /\ UNCHANGED socialVars
  /\ UNCHANGED streamVars

\* lines 157-165: one iteration of `for post in hot_posts`. The loop has no
\* try/except and neither has find_momentum_pumps, so the TypeError of a None
\* field ends the call: the exception reaches the caller.
ScorePost ==
  /\ pc = "reddit"
  /\ next_post <= Len(hot_posts)
  /\ LET post == hot_posts[next_post]
     IN IF MomentumRaises(post)
        THEN /\ pc' = "raised"
             /\ UNCHANGED << momentum_events, scored, next_post >>
        ELSE /\ momentum_events' = momentum_events \o PostEvents(post, now)
             /\ scored' = Append(scored,
                             [post |-> post, at |-> now,
                              momentum_score |->
                                _calculate_post_momentum(post, now)])
             /\ next_post' = next_post + 1
             /\ pc' = IF next_post' > Len(hot_posts)
                      THEN "stocktwits" ELSE "reddit"
  /\ UNCHANGED << now, ticks, hot_posts, theme_groups, momentum_clusters,
                  theme_breakdown, platform_momentum, risk_analysis, results,
                  symbol_streams >>
  /\ UNCHANGED callVars
  /\ UNCHANGED socialVars
  /\ UNCHANGED streamVars

\* lines 167-188: the bursts of the trending symbols' streams
ScanStockTwits ==
  /\ pc = "stocktwits"
  /\ \E choice \in StreamChoices :
       /\ replay => choice = symbol_streams
       /\ symbol_streams' = choice
       /\ momentum_events' = momentum_events
            \o StockTwitsEvents([i \in DOMAIN choice |-> StreamPool[choice[i]]])
  /\ pc' = "fourchan"
  /\ UNCHANGED << now, ticks, hot_posts, next_post, scored, theme_groups,
                  momentum_clusters, theme_breakdown, platform_momentum,
                  risk_analysis, results >>
  /\ UNCHANGED callVars
  /\ UNCHANGED socialVars
  /\ UNCHANGED streamVars

\* lines 190-207: the 4chan threads, and the return of _find_momentum_events
ScanFourChan ==
  /\ pc = "fourchan"
  /\ momentum_events' = momentum_events
       \o (IF HasFetchPumpThreads THEN ThreadEvents(pump_threads) ELSE << >>)
  /\ pc' = "cluster"
  /\ UNCHANGED << now, ticks, hot_posts, next_post, scored, theme_groups,
                  momentum_clusters, theme_breakdown, platform_momentum,
                  risk_analysis, results,
                  symbol_streams >>
  /\ UNCHANGED callVars
  /\ UNCHANGED socialVars
  /\ UNCHANGED streamVars

\* line 57
ClusterMomentum ==
  /\ pc = "cluster"
  /\ theme_groups' = ThemeGroups(momentum_events)
  /\ momentum_clusters' = _cluster_momentum(momentum_events)
  /\ pc' = "themes"
  /\ UNCHANGED << now, ticks, hot_posts, next_post, scored, momentum_events,
                  theme_breakdown, platform_momentum, risk_analysis, results,
                  symbol_streams >>
  /\ UNCHANGED callVars
  /\ UNCHANGED socialVars
  /\ UNCHANGED streamVars

\* line 61
AnalyzeThemes ==
  /\ pc = "themes"
  /\ theme_breakdown' = _analyze_themes(momentum_clusters)
  /\ pc' = "platforms"
  /\ UNCHANGED << now, ticks, hot_posts, next_post, scored, momentum_events,
                  theme_groups, momentum_clusters, platform_momentum,
                  risk_analysis, results,
                  symbol_streams >>
  /\ UNCHANGED callVars
  /\ UNCHANGED socialVars
  /\ UNCHANGED streamVars

\* line 62
AnalyzePlatformMomentum ==
  /\ pc = "platforms"
  /\ platform_momentum' = _analyze_platform_momentum(momentum_events)
  /\ pc' = "risk"
  /\ UNCHANGED << now, ticks, hot_posts, next_post, scored, momentum_events,
                  theme_groups, momentum_clusters, theme_breakdown,
                  risk_analysis, results,
                  symbol_streams >>
  /\ UNCHANGED callVars
  /\ UNCHANGED socialVars
  /\ UNCHANGED streamVars

\* line 66
DetectPumpPatterns ==
  /\ pc = "risk"
  /\ risk_analysis' = _detect_pump_patterns(momentum_clusters, momentum_events)
  /\ pc' = "results"
  /\ UNCHANGED << now, ticks, hot_posts, next_post, scored, momentum_events,
                  theme_groups, momentum_clusters, theme_breakdown,
                  platform_momentum, results,
                  symbol_streams >>
  /\ UNCHANGED callVars
  /\ UNCHANGED socialVars
  /\ UNCHANGED streamVars

\* lines 68-98: the AI analysis is requested or not, the results are built
BuildResults ==
  /\ pc = "results"
  /\ \E analyze_top \in { 0, 5 } :
       results' =
         [momentum_events |-> Len(momentum_events),
          clusters_found |-> Len(momentum_clusters),
          theme_breakdown |-> theme_breakdown,
          platform_momentum |-> platform_momentum,
          top_theme |-> _get_top_theme(theme_breakdown),
          peak_time |-> "Last 2-4 hours",
          high_risk_patterns |-> risk_analysis.high_risk_patterns,
          coordinated_platforms |-> risk_analysis.coordinated_platforms,
          volume_spikes |-> risk_analysis.volume_spikes,
          new_account_ratio |-> risk_analysis.new_account_ratio,
          recommendation |-> Recommendation(risk_analysis, momentum_clusters),
          ai_analysis |-> RequestsAI(analyze_top, momentum_clusters)]
  /\ pc' = "done"
  /\ UNCHANGED << now, ticks, hot_posts, next_post, scored, momentum_events,
                  theme_groups, momentum_clusters, theme_breakdown,
                  platform_momentum, risk_analysis,
                  symbol_streams >>
  /\ UNCHANGED callVars
  /\ UNCHANGED socialVars
  /\ UNCHANGED streamVars

Summarize ==
  \/ ClusterMomentum
  \/ AnalyzeThemes
  \/ AnalyzePlatformMomentum
  \/ DetectPumpPatterns
  \/ BuildResults

Next ==
  \/ FetchReddit
  \/ Tick
  \/ ScorePost
  \/ ScanStockTwits
  \/ ScanFourChan
  \/ Summarize

\* find_momentum_pumps, from the scrapers' records to the results
Spec == Init /\ [][Next]_vars

\* the counts, the breakdowns and the risk indicators of a results dict
Summary(r) ==
  [momentum_events |-> r.momentum_events,
   clusters_found |-> r.clusters_found,
   theme_breakdown |-> r.theme_breakdown,
   platform_momentum |-> r.platform_momentum,
   top_theme |-> r.top_theme,
   high_risk_patterns |-> r.high_risk_patterns,
   coordinated_platforms |-> r.coordinated_platforms,
   volume_spikes |-> r.volume_spikes,
   new_account_ratio |-> r.new_account_ratio,
   recommendation |-> r.recommendation]

\* a further call whose local variables survive from the call before
CallAgain_KeepLocals ==
  /\ pc \in { "done", "raised" }
  /\ calls < MaxCalls
  /\ \E again \in BOOLEAN :
       /\ again => pc = "done"
       /\ replay' = again
       /\ previous' = IF again
                      THEN [scored |-> scored, summary |-> Summary(results)]
                      ELSE NoPrevious
       /\ hot_posts' = IF again THEN hot_posts ELSE << >>
       /\ symbol_streams' = IF again THEN symbol_streams ELSE << >>
  /\ calls' = calls + 1
  /\ now' = now + TickSeconds
  /\ pc' = "fetch"
  /\ next_post' = 1
  /\ scored' = << >>
  /\ results' = NoResults
  /\ UNCHANGED << ticks, momentum_events, theme_groups, momentum_clusters,
                  theme_breakdown, platform_momentum, risk_analysis >>
  /\ UNCHANGED socialVars
  /\ UNCHANGED streamVars

\* lines 35-51: find_momentum_pumps is called again on the same scanner,
\* after the call before returned or raised. The scanner keeps nothing but
\* its scrapers (lines 26-33), and every list and dict of a call is local to
\* it. Time has passed; the scrapers return new records, or (replay) the
\* records they returned to the call before.
CallAgain ==
  /\ pc \in { "done", "raised" }
  /\ calls < MaxCalls
  /\ \E again \in BOOLEAN :
       /\ again => pc = "done"
       /\ replay' = again
       /\ previous' = IF again
                      THEN [scored |-> scored, summary |-> Summary(results)]
                      ELSE NoPrevious
       /\ hot_posts' = IF again THEN hot_posts ELSE << >>
       /\ symbol_streams' = IF again THEN symbol_streams ELSE << >>
  /\ calls' = calls + 1
  /\ now' = now + TickSeconds
  /\ pc' = "fetch"
  /\ next_post' = 1
  /\ scored' = << >>
  /\ momentum_events' = << >>
  /\ theme_groups' = << >>
  /\ momentum_clusters' = << >>
  /\ theme_breakdown' = << >>
  /\ platform_momentum' = << >>
  /\ risk_analysis' = NoRisk
  /\ results' = NoResults
  /\ UNCHANGED ticks
  /\ UNCHANGED socialVars
  /\ UNCHANGED streamVars

\* the clock is taken to stand still during a call and to advance between
\* two calls
InitCalls ==
  /\ pc = "fetch"
  /\ now = Now0
  /\ ticks = MaxTicks
  /\ hot_posts = << >>
  /\ next_post = 1
  /\ scored = << >>
  /\ momentum_events = << >>
  /\ theme_groups = << >>
  /\ momentum_clusters = << >>
  /\ theme_breakdown = << >>
  /\ platform_momentum = << >>
  /\ risk_analysis = NoRisk
  /\ results = NoResults
  /\ calls = 1
  /\ replay = FALSE
  /\ symbol_streams = << >>
  /\ previous = NoPrevious
  /\ pump_threads = << >>
  /\ messages = << >>
  /\ time_groups = << >>
  /\ NoMonitor

NextCalls ==
  \/ FetchReddit
  \/ ScorePost
  \/ ScanStockTwits
  \/ ScanFourChan
  \/ Summarize
  \/ CallAgain

\* successive calls of find_momentum_pumps on one scanner
SpecCalls == InitCalls /\ [][NextCalls]_vars

\* _cluster_momentum and the Summarizer applied to a list of events
InitAgg ==
  /\ pc = "cluster"
  /\ now = Now0
  /\ ticks = 0
  /\ hot_posts = << >>
  /\ next_post = 1
  /\ scored = << >>
  /\ \E choice \in EventChoices :
       momentum_events = [i \in DOMAIN choice |-> EventPool[choice[i]]]
  /\ theme_groups = << >>
  /\ momentum_clusters = << >>
  /\ theme_breakdown = << >>
  /\ platform_momentum = << >>
  /\ risk_analysis = NoRisk
  /\ results = NoResults
  /\ calls = 1
  /\ replay = FALSE
  /\ symbol_streams = << >>
  /\ previous = NoPrevious
  /\ pump_threads = << >>
  /\ messages = << >>
  /\ time_groups = << >>
  /\ NoMonitor

SpecAgg == InitAgg /\ [][Summarize]_vars

\* the 4chan step of _find_momentum_events and the Summarizer, for the
\* lists of threads that find_pump_threads may return; Spec and SpecCalls,
\* where the step changes nothing, take the list to be empty
InitThreads ==
  /\ pc = "fourchan"
  /\ now = Now0
  /\ ticks = 0
  /\ hot_posts = << >>
  /\ next_post = 1
  /\ scored = << >>
  /\ momentum_events = << >>
  /\ theme_groups = << >>
  /\ momentum_clusters = << >>
  /\ theme_breakdown = << >>
  /\ platform_momentum = << >>
  /\ risk_analysis = NoRisk
  /\ results = NoResults
  /\ calls = 1
  /\ replay = FALSE
  /\ symbol_streams = << >>
  /\ previous = NoPrevious
  /\ \E choice \in ThreadChoices :
       pump_threads = [i \in DOMAIN choice |-> ThreadPool[choice[i]]]
  /\ messages = << >>
  /\ time_groups = << >>
  /\ NoMonitor

NextThreads ==
  \/ ScanFourChan
  \/ Summarize

SpecThreads == InitThreads /\ [][NextThreads]_vars

\* the message lists of a trending symbol: up to MaxMessages messages, a
\* minute or ten minutes apart, the oldest first
MessageLists ==
  { SparseStream(n, T_moon, T_hello, 100, gap) :
      n \in 0..MaxMessages, gap \in { 1, 10 } }

\* a scan that finds no post, at the StockTwits step with one trending
\* symbol
InitGroups ==
  /\ pc = "symbol"
  /\ now = Now0
  /\ ticks = 0
  /\ hot_posts = << >>
  /\ next_post = 1
  /\ scored = << >>
  /\ momentum_events = << >>
  /\ theme_groups = << >>
  /\ momentum_clusters = << >>
  /\ theme_breakdown = << >>
  /\ platform_momentum = << >>
  /\ risk_analysis = NoRisk
  /\ results = NoResults
  /\ calls = 1
  /\ replay = FALSE
  /\ symbol_streams = << >>
  /\ previous = NoPrevious
  /\ pump_threads = << >>
  /\ messages \in MessageLists
  /\ time_groups = << >>
  /\ NoMonitor

\* lines 175-186: the messages of the symbol are grouped by time and every
\* group of more than 10 messages becomes an event
ScanSymbol ==
  /\ pc = "symbol"
  /\ time_groups' = _group_by_time(messages, 30)
  /\ momentum_events' = momentum_events \o BurstEvents(time_groups')
  /\ pc' = "fourchan"
  /\ UNCHANGED << now, ticks, hot_posts, next_post, scored, theme_groups,
                  momentum_clusters, theme_breakdown, platform_momentum,
                  risk_analysis, results, symbol_streams, pump_threads,
                  messages >>
  /\ UNCHANGED callVars
  /\ UNCHANGED socialVars

NextGroups ==
  \/ ScanSymbol
  \/ ScanFourChan
  \/ Summarize

SpecGroups == InitGroups /\ [][NextGroups]_vars

\* ------------------------------------------------- continuous monitoring
momentumVars ==
  << pc, now, ticks, hot_posts, next_post, scored, momentum_events,
     theme_groups, momentum_clusters, theme_breakdown, platform_momentum,
     risk_analysis, results, calls, replay, symbol_streams, previous,
     pump_threads, messages, time_groups >>

\* automatic_pump_finder has called monitor_live_pumps; no
\* MomentumPumpScanner is at work
InitMonitor ==
  /\ pc = "idle"
  /\ now = Now0
  /\ ticks = 0
  /\ hot_posts = << >>
  /\ next_post = 1
  /\ scored = << >>
  /\ momentum_events = << >>
  /\ theme_groups = << >>
  /\ momentum_clusters = << >>
  /\ theme_breakdown = << >>
  /\ platform_momentum = << >>
  /\ risk_analysis = NoRisk
  /\ results = NoResults
  /\ calls = 1
  /\ replay = FALSE
  /\ symbol_streams = << >>
  /\ previous = NoPrevious
  /\ pump_threads = << >>
  /\ messages = << >>
  /\ time_groups = << >>
  /\ mpc = "loop"
  /\ round = 0
  /\ interrupted = FALSE
  /\ errors = 0
  /\ FreshScan

\* lines 363-370: `while True` enters its body, at first, after the sleep
\* of line 386 or after the sleep of line 393, and calls
\* find_pump_candidates, whose variables are all local
StartRound ==
  /\ mpc \in { "loop", "sleep", "error_sleep" }
  /\ round < MaxRounds
  /\ round' = round + 1
  /\ mpc' = "reddit"
  /\ fetched' = << >>
  /\ all_tickers' = << >>
  /\ top_tickers' = << >>
  /\ next_future' = 1
  /\ worker' = << >>
  /\ taken' = << >>
  /\ candidate_data' = << >>
  /\ analyzed_results' = << >>
  /\ report' = NoReport
  /\ wall_clock' = 0
  /\ report_path' = NoPath
  /\ UNCHANGED << interrupted, errors >>
  /\ UNCHANGED momentumVars

\* ScanReddit with an unreadable configuration ending the monitoring
ScanReddit_ErrorStops ==
  /\ mpc = "reddit"
  /\ \E config_ok \in BOOLEAN, reddit_tickers \in RedditPool :
       IF config_ok
       THEN /\ all_tickers' = CounterUpdate(all_tickers, reddit_tickers.returned)
            /\ fetched' = Append(fetched,
                 [source |-> "reddit", failed |-> reddit_tickers.failed,
                  returned |-> reddit_tickers.returned])
            /\ mpc' = "fourchan"
            /\ errors' = errors
       ELSE /\ mpc' = "stopped"
            /\ errors' = errors + 1
            /\ UNCHANGED << all_tickers, fetched >>
  /\ UNCHANGED << round, interrupted, top_tickers, next_future, worker, taken,
                  candidate_data, analyzed_results, report, wall_clock,
                  report_path >>
  /\ UNCHANGED momentumVars

\* lines 154-155 and 192-290: _scan_reddit_for_pumps opens config.yaml
\* outside of any try, so an unreadable configuration ends
\* find_pump_candidates with an exception, which line 391 catches. The
\* searches are in try/except: a failed search leaves its mentions out.
ScanReddit ==
  /\ mpc = "reddit"
  /\ \E config_ok \in BOOLEAN, reddit_tickers \in RedditPool :
       IF config_ok
       THEN /\ all_tickers' = CounterUpdate(all_tickers, reddit_tickers.returned)
            /\ fetched' = Append(fetched,
                 [source |-> "reddit", failed |-> reddit_tickers.failed,
                  returned |-> reddit_tickers.returned])
            /\ mpc' = "fourchan"
            /\ errors' = errors
       ELSE /\ mpc' = "error_sleep"
            /\ errors' = errors + 1
            /\ UNCHANGED << all_tickers, fetched >>
  /\ UNCHANGED << round, interrupted, top_tickers, next_future, worker, taken,
                  candidate_data, analyzed_results, report, wall_clock,
                  report_path >>
  /\ UNCHANGED momentumVars

\* lines 159-160
FourChanMentions ==
  /\ mpc = "fourchan"
  /\ \E fourchan_tickers \in FourChanPool :
       /\ all_tickers' = CounterUpdate(all_tickers, fourchan_tickers.returned)
       /\ fetched' = Append(fetched,
            [source |-> "fourchan", failed |-> fourchan_tickers.failed,
             returned |-> fourchan_tickers.returned])
  /\ mpc' = "investorshub"
  /\ UNCHANGED << round, interrupted, top_tickers, next_future, worker, taken,
                  candidate_data, analyzed_results, report >>
  /\ UNCHANGED saverVars
  /\ UNCHANGED momentumVars

\* lines 164-168
HotBoards ==
  /\ mpc = "investorshub"
  /\ \E hot_boards \in HotBoardsPool :
       /\ all_tickers' = HotBoardLoop(hot_boards.returned, all_tickers)
       /\ fetched' = Append(fetched,
            [source |-> "investorshub", failed |-> hot_boards.failed,
             returned |-> hot_boards.returned])
  /\ mpc' = "stocktwits"
  /\ UNCHANGED << round, interrupted, top_tickers, next_future, worker, taken,
                  candidate_data, analyzed_results, report >>
  /\ UNCHANGED saverVars
  /\ UNCHANGED momentumVars

\* lines 171-180: whatever get_trending_symbols raises is swallowed by the
\* bare `except: pass`
StockTwitsTrending ==
  /\ mpc = "stocktwits"
  /\ \E trending \in TrendingPool :
       /\ all_tickers' = TrendingLoop(FirstThirty(trending.returned),
                                      all_tickers)
       /\ fetched' = Append(fetched,
            [source |-> "stocktwits", failed |-> trending.failed,
             returned |-> trending.returned])
  /\ mpc' = "bitcointalk"
  /\ UNCHANGED << round, interrupted, top_tickers, next_future, worker, taken,
                  candidate_data, analyzed_results, report >>
  /\ UNCHANGED saverVars
  /\ UNCHANGED momentumVars

\* lines 184-190
BitcoinTalkTrending ==
  /\ mpc = "bitcointalk"
  /\ \E crypto_trending \in AltcoinPool :
       /\ all_tickers' = CryptoLoop(crypto_trending.returned, all_tickers)
       /\ fetched' = Append(fetched,
            [source |-> "bitcointalk", failed |-> crypto_trending.failed,
             returned |-> crypto_trending.returned])
  /\ mpc' = "submit"
  /\ UNCHANGED << round, interrupted, top_tickers, next_future, worker, taken,
                  candidate_data, analyzed_results, report >>
  /\ UNCHANGED saverVars
  /\ UNCHANGED momentumVars

\* lines 58-78: the active tickers are ranked and a collect_pump_data task
\* is submitted for each of the top ones (max_workers is 5 and top_n is 5,
\* so every task starts at once)
SubmitCollectors ==
  /\ mpc = "submit"
  /\ LET active_tickers == ActiveTickers(all_tickers, monitor_min_mentions)
         top == TopTickers(active_tickers, monitor_top_n)
     IN /\ top_tickers' = top
        /\ worker' = [i \in 1..Len(top) |->
                        [state |-> "running", outcome |-> Pending,
                         sources |-> << >>, path |-> NoPath]]
        /\ mpc' = IF Len(top) = 0 THEN "join" ELSE "collect"
  /\ next_future' = 1
  /\ UNCHANGED << round, interrupted, fetched, all_tickers, taken,
                  candidate_data, analyzed_results, report >>
  /\ UNCHANGED saverVars
  /\ UNCHANGED momentumVars

\* aggregator lines 54-95 in a worker thread: the result loop of
\* collect_pump_data is through; a fetch that is still running keeps the
\* worker in the exit of the `with` block, otherwise the report of the
\* ticker is saved (lines 92-93) and collect_pump_data returns
WorkerCollects ==
  /\ mpc \in { "collect", "join", "unwind" }
  /\ \E i \in 1..Len(worker), outcome \in OutcomePool,
        t \in Instants(wall_clock) :
       /\ worker[i].state = "running"
       /\ IF WaitsOnExit(top_tickers[i].ticker, outcome)
          THEN /\ worker' = [worker EXCEPT ![i] =
                    [state |-> "joining", outcome |-> outcome,
                     sources |-> collect_pump_data(top_tickers[i].ticker,
                                                   outcome),
                     path |-> NoPath]]
               /\ wall_clock' = wall_clock
          ELSE /\ worker' = [worker EXCEPT ![i] =
                    [state |-> "returned", outcome |-> outcome,
                     sources |-> collect_pump_data(top_tickers[i].ticker,
                                                   outcome),
                     path |-> pump_report_path(t)]]
               /\ wall_clock' = t
  /\ UNCHANGED << errors, report_path >>
  /\ UNCHANGED << mpc, round, interrupted, fetched, all_tickers, top_tickers,
                  next_future, taken, candidate_data, analyzed_results,
                  report >>
  /\ UNCHANGED momentumVars

\* aggregator lines 55 and 85-95: the late fetch has finished, the `with`
\* block is left, the report of the ticker is saved and collect_pump_data
\* returns
WorkerJoins ==
  /\ mpc \in { "collect", "join", "unwind" }
  /\ \E i \in 1..Len(worker), t \in Instants(wall_clock) :
       /\ worker[i].state = "joining"
       /\ worker' = [worker EXCEPT ![i].state = "returned",
                                   ![i].path = pump_report_path(t)]
       /\ wall_clock' = t
  /\ UNCHANGED << errors, report_path >>
  /\ UNCHANGED << mpc, round, interrupted, fetched, all_tickers, top_tickers,
                  next_future, taken, candidate_data, analyzed_results,
                  report >>
  /\ UNCHANGED momentumVars

\* aggregator lines 39-95: collect_pump_data raises in its worker thread
WorkerRaises ==
  /\ mpc \in { "collect", "join", "unwind" }
  /\ \E i \in 1..Len(worker) :
       /\ worker[i].state = "running"
       /\ worker' = [worker EXCEPT ![i].state = "raised"]
  /\ UNCHANGED << mpc, round, interrupted, fetched, all_tickers, top_tickers,
                  next_future, taken, candidate_data, analyzed_results,
                  report >>
  /\ UNCHANGED saverVars
  /\ UNCHANGED momentumVars

\* lines 80-85: one iteration of `for ticker, future in futures.items()`.
\* future.result(timeout=60) returns the data of a worker that has
\* returned, re-raises what the worker raised, and raises TimeoutError for
\* a worker that is not through in time; `except Exception` catches both.
TakeResult ==
  /\ mpc = "collect"
  /\ next_future <= Len(top_tickers)
  /\ LET future == worker[next_future]
         ticker == top_tickers[next_future].ticker
     IN IF future.state = "returned"
        THEN /\ candidate_data' = Append(candidate_data,
                  [ticker |-> ticker, sources |-> future.sources])
             /\ taken' = Append(taken, "data")
        ELSE /\ candidate_data' = candidate_data
             /\ taken' = Append(taken, IF future.state = "raised"
                                       THEN "raised" ELSE "timeout")
  /\ next_future' = next_future + 1
  /\ mpc' = IF next_future' > Len(top_tickers) THEN "join" ELSE "collect"
  /\ UNCHANGED << round, interrupted, fetched, all_tickers, top_tickers,
                  worker, analyzed_results, report >>
  /\ UNCHANGED saverVars
  /\ UNCHANGED momentumVars

\* line 69: leaving the `with` block waits for every worker
LeaveExecutor ==
  /\ mpc = "join"
  /\ \A i \in 1..Len(worker) : worker[i].state \in { "returned", "raised" }
  /\ mpc' = "analyze"
  /\ UNCHANGED << round, interrupted, fetched, all_tickers, top_tickers,
                  next_future, worker, taken, candidate_data,
                  analyzed_results, report >>
  /\ UNCHANGED saverVars
  /\ UNCHANGED momentumVars

\* lines 88-118: the AI analysis of the top candidates, then the sort
Analyze ==
  /\ mpc = "analyze"
  /\ LET tickers == SubSeq(top_tickers, 1,
                      IF Len(top_tickers) < monitor_analyze_top
                      THEN Len(top_tickers) ELSE monitor_analyze_top)
     IN \E verdict \in [1..Len(tickers) -> AnalysisPool] :
          analyzed_results' =
            SortByProbability(
              AnalyzeLoop(1, tickers, verdict, candidate_data, << >>), << >>)
  /\ mpc' = "report"
  /\ UNCHANGED << round, interrupted, fetched, all_tickers, top_tickers,
                  next_future, worker, taken, candidate_data, report >>
  /\ UNCHANGED saverVars
  /\ UNCHANGED momentumVars

\* lines 121-146: the report is compiled, saved (save_pump_report catches
\* its own errors) and returned
CompileReport ==
  /\ mpc = "report"
  /\ report' = Report(all_tickers,
                      ActiveTickers(all_tickers, monitor_min_mentions),
                      top_tickers, analyzed_results, candidate_data)
  /\ \E t \in Instants(wall_clock) :
       /\ report_path' = pump_report_path(t)
       /\ wall_clock' = t
  /\ mpc' = "returned"
  /\ UNCHANGED << round, interrupted, fetched, all_tickers, top_tickers,
                  next_future, worker, taken, candidate_data,
                  analyzed_results, errors >>
  /\ UNCHANGED momentumVars

\* lines 373-386: the alerts are logged and the loop sleeps
AlertAndSleep ==
  /\ mpc = "returned"
  /\ mpc' = "sleep"
  /\ UNCHANGED << round, interrupted, fetched, all_tickers, top_tickers,
                  next_future, worker, taken, candidate_data,
                  analyzed_results, report >>
  /\ UNCHANGED saverVars
  /\ UNCHANGED momentumVars

\* the user presses Ctrl+C: KeyboardInterrupt is raised in the main thread
\* at the statement it executes. Inside the try of lines 173-178 the bare
\* `except:` of line 179 catches it and the scan goes on with line 183.
\* Inside the `with` block of lines 69-85 `except Exception` does not catch
\* it, and the exit of the block waits for the workers before the exception
\* travels on. Everywhere else in the try of line 364 it reaches line 388
\* and the loop breaks; in the sleep of line 393 it leaves
\* monitor_live_pumps and is caught by main (automatic_pump_finder.py,
\* line 79).
Interrupt ==
  /\ ~interrupted
  /\ mpc \notin { "off", "stopped" }
  /\ interrupted' = TRUE
  /\ IF mpc = "stocktwits"
     THEN /\ mpc' = "bitcointalk"
          /\ fetched' = Append(fetched,
               [source |-> "stocktwits", failed |-> TRUE, returned |-> << >>])
     ELSE /\ mpc' = IF mpc \in { "collect", "join" } THEN "unwind"
                    ELSE "stopped"
          /\ UNCHANGED fetched
  /\ UNCHANGED << round, all_tickers, top_tickers, next_future, worker, taken,
                  candidate_data, analyzed_results, report >>
  /\ UNCHANGED saverVars
  /\ UNCHANGED momentumVars

\* line 69 and lines 388-390: the workers are through, the
\* KeyboardInterrupt leaves the `with` block and the loop breaks
Unwind ==
  /\ mpc = "unwind"
  /\ \A i \in 1..Len(worker) : worker[i].state \in { "returned", "raised" }
  /\ mpc' = "stopped"
  /\ UNCHANGED << round, interrupted, fetched, all_tickers, top_tickers,
                  next_future, worker, taken, candidate_data,
                  analyzed_results, report >>
  /\ UNCHANGED saverVars
  /\ UNCHANGED momentumVars

NextMonitor ==
  \/ StartRound
  \/ ScanReddit
  \/ FourChanMentions
  \/ HotBoards
  \/ StockTwitsTrending
  \/ BitcoinTalkTrending
  \/ SubmitCollectors
  \/ WorkerCollects
  \/ WorkerJoins
  \/ WorkerRaises
  \/ TakeResult
  \/ LeaveExecutor
  \/ Analyze
  \/ CompileReport
  \/ AlertAndSleep
  \/ Interrupt
  \/ Unwind

\* monitor_live_pumps on a SocialPumpScanner
SpecMonitor == InitMonitor /\ [][NextMonitor]_vars

\* the steps of the thread that runs monitor_live_pumps
MainThread ==
  \/ StartRound
  \/ ScanReddit
  \/ FourChanMentions
  \/ HotBoards
  \/ StockTwitsTrending
  \/ BitcoinTalkTrending
  \/ SubmitCollectors
  \/ TakeResult
  \/ LeaveExecutor
  \/ Analyze
  \/ CompileReport
  \/ AlertAndSleep
  \/ Unwind

\* monitor_live_pumps with its scheduling: the main thread takes its next
\* step whenever it has one (every sleep and every future.result(timeout)
\* ends), and the result loop of a worker ends, each of its waits having a
\* timeout of 30 seconds. Nothing makes a fetch that is still running
\* finish, and nothing makes the user press Ctrl+C.
SpecMonitorFair ==
  /\ InitMonitor
  /\ [][NextMonitor]_vars
  /\ WF_vars(MainThread)
  /\ WF_vars(WorkerCollects)

\* ------------------------------------------------- properties
ReturnedEvents ==
  pc \notin { "fetch", "reddit", "stocktwits", "fourchan", "raised" }

\* _cluster_momentum has just returned (its results do not change afterwards)
Clustered == pc = "themes"

\* C1: every event of the Normalizer's list has momentum_score >= 0, and no
\* post whose computed momentum is below 0.5 has a reddit_surge event in it,
\* whatever the records (negative scores, no comments, future timestamps).
C1_NormalizerFloor ==
  /\ \A i \in 1..Len(momentum_events) :
       LET e == momentum_events[i]
       IN /\ RatLeq(Int2Rat(0), e.momentum_score)
          /\ e.type = "reddit_surge" => ~RatLess(e.momentum_score, Half)
  /\ \A j \in 1..Len(scored) :
       RatLess(scored[j].momentum_score, Half) =>
         ~\E i \in 1..Len(momentum_events) :
            /\ momentum_events[i].type = "reddit_surge"
            /\ momentum_events[i].content = scored[j].post
            /\ momentum_events[i].momentum_score = scored[j].momentum_score

\* the Normalizer returned events after scoring a post with a negative score,
\* a post with no comments and a post dated in the future
C1_Witness ==
  /\ ReturnedEvents
  /\ Len(momentum_events) > 0
  /\ \E j \in 1..Len(scored) :
       scored[j].post.score < 0 /\ scored[j].post.num_comments = 0
  /\ \E j \in 1..Len(scored) : scored[j].post.created_utc > scored[j].at

\* (score + 2*num_comments) / max(age_hours, 0.5) / 50 with the age in seconds
ClaimedMomentum(post, at) ==
  LET age == IF post.created_utc # 0 THEN at - post.created_utc ELSE 24 * 3600
      clamped == IF age < 1800 THEN 1800 ELSE age
  IN Rat((post.score + 2 * post.num_comments) * 3600, clamped * 50)

\* C2: every call of _calculate_post_momentum returns
\* (score + 2*num_comments) / max(age_hours, 0.5) / 50, the age being
\* (now - created_utc)/3600, or 24 without a timestamp; score 100 with 25
\* comments after 1 hour gives 3.0, score 5 without comments after 10 hours 0.01.
C2_PostMomentum ==
  \A j \in 1..Len(scored) :
    LET post == scored[j].post
        m == scored[j].momentum_score
    IN /\ m = ClaimedMomentum(post, scored[j].at)
       /\ (post.score = 100 /\ post.num_comments = 25
             /\ scored[j].at - post.created_utc = 3600) => m = Int2Rat(3)
       /\ (post.score = 5 /\ post.num_comments = 0
             /\ scored[j].at - post.created_utc = 36000) => m = Rat(1, 100)

\* both examples were scored, and so were an undated post and a post younger
\* than half an hour
C2_Witness ==
  /\ \E j \in 1..Len(scored) :
       /\ scored[j].post.score = 100 /\ scored[j].post.num_comments = 25
       /\ scored[j].at - scored[j].post.created_utc = 3600
  /\ \E j \in 1..Len(scored) :
       /\ scored[j].post.score = 5 /\ scored[j].post.num_comments = 0
       /\ scored[j].at - scored[j].post.created_utc = 36000

\* an undated post and a post younger than half an hour were scored
C2_WitnessDefaults ==
  /\ \E j \in 1..Len(scored) : scored[j].post.created_utc = 0
  /\ \E j \in 1..Len(scored) :
       /\ scored[j].post.created_utc # 0
       /\ scored[j].at - scored[j].post.created_utc < 1800

\* ---- helpers of the properties
Range(f) == { f[i] : i \in DOMAIN f }

AllPlatforms == { "reddit", "stocktwits", "4chan" }

\* the sum of the momentum scores of the events whose indices are in refs
RECURSIVE SetSum(_, _)
SetSum(events, refs) ==
  IF refs = { } THEN Int2Rat(0)
  ELSE LET r == CHOOSE x \in refs : TRUE
       IN RatAdd(events[r].momentum_score, SetSum(events, refs \ { r }))

\* the tags the scan assigned to the event at index i
Assigned(i) ==
  { theme_groups[g].theme :
      g \in { h \in 1..Len(theme_groups) : i \in Range(theme_groups[h].events) } }

\* the tag set of every event of the scan, by the event's index
EventTags ==
  SubSeq([i \in 1..Len(momentum_events) |->
            Range(_extract_themes(momentum_events[i]))],
         1, Len(momentum_events))

\* the events that carry theme T, tags being the events' tag sets
Carriers(tags, T) == { i \in 1..Len(tags) : T \in tags[i] }

\* the number of distinct platforms among a cluster's member events
Span(c) ==
  Cardinality({ p \in AllPlatforms :
                  \E r \in Range(c.events) : momentum_events[r].platform = p })

\* C3: every cluster of _cluster_momentum has at least 2 member events, and a
\* theme carried by fewer than 2 events produces no cluster.
C3_MinClusterSize ==
  Clustered =>
    /\ LET tags == EventTags
       IN \A k \in 1..Len(momentum_clusters) :
            /\ Len(momentum_clusters[k].events) >= 2
            /\ Cardinality(Carriers(tags, momentum_clusters[k].theme)) >= 2
    /\ \A g \in 1..Len(theme_groups) :
         Len(theme_groups[g].events) < 2 =>
           \A k \in 1..Len(momentum_clusters) :
             momentum_clusters[k].theme # theme_groups[g].theme

\* a theme carried by one event only, next to a theme that made a cluster
C3_Witness ==
  /\ Clustered
  /\ Len(momentum_clusters) >= 1
  /\ \E g \in 1..Len(theme_groups) : Len(theme_groups[g].events) = 1

\* Scenario C: two pump_hype events of different platforms, scores 3.0 and 4.0
ScenarioC(c) ==
  /\ c.theme = "pump_hype"
  /\ Len(c.events) = 2
  /\ momentum_events[c.events[1]].platform # momentum_events[c.events[2]].platform
  /\ { momentum_events[c.events[1]].momentum_score,
       momentum_events[c.events[2]].momentum_score } = { Int2Rat(3), Int2Rat(4) }

\* C4: a cluster's total_momentum is the sum of the momentum_score of exactly
\* its member events and its platform_diversity the number of distinct
\* platforms among them; Scenario C gives total 7.0 and diversity 2.
C4_ClusterTotals ==
  Clustered =>
    \A k \in 1..Len(momentum_clusters) :
      LET c == momentum_clusters[k]
      IN /\ c.total_momentum = SetSum(momentum_events, Range(c.events))
         /\ c.platform_diversity = Span(c)
         /\ ScenarioC(c) => c.total_momentum = Int2Rat(7) /\ c.platform_diversity = 2

\* Scenario C happened, among events that are not all members of the cluster
C4_Witness ==
  /\ Clustered
  /\ \E k \in 1..Len(momentum_clusters) :
       /\ ScenarioC(momentum_clusters[k])
       /\ Len(momentum_events) > Len(momentum_clusters[k].events)

\* C5: an event with N tags is a member of exactly N theme groups; the group
\* of theme T holds exactly the events whose tags include T, each once; a
\* cluster's members are its theme's group; an untagged event is in no cluster.
C5_GroupByTag ==
  Clustered =>
    LET tags == EventTags
    IN
    /\ \A i \in 1..Len(momentum_events) :
         /\ Cardinality({ g \in 1..Len(theme_groups) :
                            i \in Range(theme_groups[g].events) })
              = Cardinality(tags[i])
         /\ tags[i] = { } =>
              \A k \in 1..Len(momentum_clusters) :
                i \notin Range(momentum_clusters[k].events)
    /\ \A g \in 1..Len(theme_groups) :
         /\ Range(theme_groups[g].events) = Carriers(tags, theme_groups[g].theme)
         /\ Len(theme_groups[g].events) = Cardinality(Range(theme_groups[g].events))
         /\ \A h \in 1..Len(theme_groups) :
              theme_groups[h].theme = theme_groups[g].theme => h = g
    /\ \A k \in 1..Len(momentum_clusters) :
         \E g \in 1..Len(theme_groups) :
           /\ theme_groups[g].theme = momentum_clusters[k].theme
           /\ theme_groups[g].events = momentum_clusters[k].events

\* an event with three tags or more and an untagged event were grouped, and
\* some theme has two members
C5_Witness ==
  /\ Clustered
  /\ \E i \in 1..Len(momentum_events) : Cardinality(Assigned(i)) >= 3
  /\ \E i \in 1..Len(momentum_events) : _extract_themes(momentum_events[i]) = << >>
  /\ Len(momentum_clusters) >= 1

\* C6: the clusters come in non-increasing order of total_momentum.
C6_SortedClusters ==
  Clustered =>
    \A k \in 1..(Len(momentum_clusters) - 1) :
      RatLeq(momentum_clusters[k + 1].total_momentum,
             momentum_clusters[k].total_momentum)

\* the sort changed the order in which the themes were first seen
C6_Witness ==
  /\ Clustered
  /\ Len(momentum_clusters) >= 2
  /\ momentum_clusters # ClusterLoop(momentum_events, theme_groups)

\* the keyword lists of the claim, tag by tag
ClaimedKeywords ==
  << [tag |-> "squeeze_play",
      keywords |-> { <<"s","q","u","e","e","z","e">>, <<"s","h","o","r","t">>, <<"g","a","m","m","a">> }],
     [tag |-> "pump_hype",
      keywords |-> { <<"p","u","m","p">>, <<"m","o","o","n">>, <<"r","o","c","k","e","t">> }],
     [tag |-> "ma_rumor",
      keywords |-> { <<"m","e","r","g","e","r">>, <<"a","c","q","u","i","s","i","t","i","o","n">>, <<"b","u","y","o","u","t">> }],
     [tag |-> "earnings_play",
      keywords |-> { <<"e","a","r","n","i","n","g","s">>, <<"r","e","v","e","n","u","e">>, <<"b","e","a","t">> }],
     [tag |-> "biotech_catalyst",
      keywords |-> { <<"f","d","a">>, <<"a","p","p","r","o","v","a","l">>, <<"c","l","i","n","i","c","a","l">> }],
     [tag |-> "crypto_momentum",
      keywords |-> { <<"c","r","y","p","t","o">>, <<"b","i","t","c","o","i","n">>, <<"d","e","f","i">> }],
     [tag |-> "sector_tech", keywords |-> Range(SKW_tech)],
     [tag |-> "sector_biotech", keywords |-> Range(SKW_biotech)],
     [tag |-> "sector_energy", keywords |-> Range(SKW_energy)],
     [tag |-> "sector_finance", keywords |-> Range(SKW_finance)],
     [tag |-> "sector_retail", keywords |-> Range(SKW_retail)],
     [tag |-> "sector_crypto", keywords |-> Range(SKW_crypto)] >>

\* the tags whose list has a keyword occurring in the lower-cased text
ClaimedTags(text_lower) ==
  { ClaimedKeywords[n].tag :
      n \in { m \in 1..Len(ClaimedKeywords) :
                \E kw \in ClaimedKeywords[m].keywords : Contains(text_lower, kw) } }

\* C7: an event is given a tag if and only if its lower-cased text contains a
\* keyword of that tag's list (thematic and sector lists alike), and is given
\* no tag when no keyword occurs.
C7_ThemeKeywords ==
  Clustered =>
    \A i \in 1..Len(momentum_events) :
      LET text_lower == Lower(EventText(momentum_events[i]))
      IN Assigned(i) = ClaimedTags(text_lower)

\* tagged: an event whose keyword is written in upper case, and an event with
\* a thematic and a sector tag; left untagged: an event without keywords
C7_Witness ==
  /\ Clustered
  /\ \E i \in 1..Len(momentum_events) :
       /\ "pump_hype" \in Assigned(i)
       /\ ~AnyIn(KW_pump_hype, EventText(momentum_events[i]))
  /\ \E i \in 1..Len(momentum_events) :
       { "biotech_catalyst", "sector_biotech" } \subseteq Assigned(i)
  /\ \E i \in 1..Len(momentum_events) : Assigned(i) = { }

\* _analyze_themes has just returned (its result does not change afterwards)
ThemesDone == pc = "platforms"

\* the sum of f over the clusters whose indices are in ks
RECURSIVE CountSum(_)
CountSum(ks) ==
  IF ks = { } THEN 0
  ELSE LET k == CHOOSE x \in ks : TRUE
       IN Len(momentum_clusters[k].events) + CountSum(ks \ { k })

RECURSIVE TotalSum(_)
TotalSum(ks) ==
  IF ks = { } THEN Int2Rat(0)
  ELSE LET k == CHOOSE x \in ks : TRUE
       IN RatAdd(momentum_clusters[k].total_momentum, TotalSum(ks \ { k }))

ClustersOf(theme) ==
  { k \in 1..Len(momentum_clusters) : momentum_clusters[k].theme = theme }

\* C8: theme_breakdown has one entry per theme that has a cluster and no
\* other; its count is the sum of the sizes of the theme's clusters, its
\* total_momentum the sum of their totals; an event with several clustered
\* tags is counted once under each.
C8_ThemeBreakdown ==
  ThemesDone =>
    LET tags == EventTags
    IN
    /\ { theme_breakdown[n].theme : n \in 1..Len(theme_breakdown) }
         = { momentum_clusters[k].theme : k \in 1..Len(momentum_clusters) }
    /\ \A n \in 1..Len(theme_breakdown) :
         LET entry == theme_breakdown[n]
         IN /\ entry.count = CountSum(ClustersOf(entry.theme))
            /\ entry.total_momentum = TotalSum(ClustersOf(entry.theme))
            /\ entry.count = Cardinality(Carriers(tags, entry.theme))
            /\ \A m \in 1..Len(theme_breakdown) :
                 theme_breakdown[m].theme = entry.theme => m = n

\* two themes in the breakdown, one of them with three events, and an event
\* that is counted under both
C8_Witness ==
  /\ ThemesDone
  /\ Len(theme_breakdown) >= 2
  /\ \E n \in 1..Len(theme_breakdown) : theme_breakdown[n].count >= 3
  /\ \E i \in 1..Len(momentum_events) :
       Cardinality({ k \in 1..Len(momentum_clusters) :
                       i \in Range(momentum_clusters[k].events) }) >= 2

PlatformsDone == pc \in { "risk", "results", "done" }

OnPlatform(p) ==
  { i \in 1..Len(momentum_events) : momentum_events[i].platform = p }

\* the sum of the scores of the scored posts that passed the floor
RECURSIVE KeptSum(_)
KeptSum(log) ==
  IF Len(log) = 0 THEN Int2Rat(0)
  ELSE IF RatLess(Half, Head(log).momentum_score)
       THEN RatAdd(Head(log).momentum_score, KeptSum(Tail(log)))
       ELSE KeptSum(Tail(log))

\* C9: platform_momentum[platform] is the sum of momentum_score over all the
\* events of the scan on that platform, in a cluster or not; a platform
\* without events has no entry; the posts the floor dropped add nothing.
C9_PlatformMomentum ==
  PlatformsDone =>
    /\ \A p \in AllPlatforms :
         (\E n \in 1..Len(platform_momentum) : platform_momentum[n].platform = p)
           <=> OnPlatform(p) # { }
    /\ \A n \in 1..Len(platform_momentum) :
         /\ platform_momentum[n].platform \in AllPlatforms
         /\ platform_momentum[n].momentum
              = SetSum(momentum_events, OnPlatform(platform_momentum[n].platform))
         /\ platform_momentum[n].platform = "reddit" =>
              platform_momentum[n].momentum = KeptSum(scored)
         /\ \A m \in 1..Len(platform_momentum) :
              platform_momentum[m].platform = platform_momentum[n].platform => m = n

\* a post was dropped by the floor, a kept event on each of two platforms is
\* in no cluster, and both platforms have their sums
C9_Witness ==
  /\ PlatformsDone
  /\ \E j \in 1..Len(scored) : ~RatLess(Half, scored[j].momentum_score)
  /\ Len(platform_momentum) = 2
  /\ \E i \in 1..Len(momentum_events) :
       \A k \in 1..Len(momentum_clusters) :
         i \notin Range(momentum_clusters[k].events)

RiskDone == pc \in { "results", "done" }

Risky == { k \in 1..Len(momentum_clusters) : Span(momentum_clusters[k]) > 2 }

\* C10: high_risk_patterns is the number of clusters that span more than 2
\* platforms, coordinated_platforms the largest span among them, or 0 when
\* there is none; with a cluster of span 3 it is at least 3.
C10_Coordination ==
  RiskDone =>
    /\ risk_analysis.high_risk_patterns = Cardinality(Risky)
    /\ Risky = { } => risk_analysis.coordinated_platforms = 0
    /\ Risky # { } =>
         /\ risk_analysis.coordinated_platforms >= 3
         /\ \E k \in Risky :
              risk_analysis.coordinated_platforms = Span(momentum_clusters[k])
         /\ \A k \in Risky :
              risk_analysis.coordinated_platforms >= Span(momentum_clusters[k])

\* a cluster on exactly 2 platforms next to clusters on 3
C10_Witness ==
  /\ RiskDone
  /\ \E k \in 1..Len(momentum_clusters) : Span(momentum_clusters[k]) = 2
  /\ Cardinality(Risky) >= 2
  /\ risk_analysis.high_risk_patterns = Cardinality(Risky)

\* the events whose score is strictly above 5.0, clustered or not
Above5 ==
  { i \in 1..Len(momentum_events) :
      momentum_events[i].momentum_score.n > 5 * momentum_events[i].momentum_score.d }

\* C11: volume_spikes is the number of events of the full event list whose
\* momentum_score is strictly greater than 5.0; an event whose score is
\* exactly 5.0 is not counted.
C11_VolumeSpikes ==
  RiskDone =>
    /\ risk_analysis.volume_spikes = Cardinality(Above5)
    /\ risk_analysis.volume_spikes
         + Cardinality({ i \in 1..Len(momentum_events) :
                           RatLeq(momentum_events[i].momentum_score, Int2Rat(5)) })
         = Len(momentum_events)

\* an event at exactly 5.0 next to an unclustered event above 5.0
C11_Witness ==
  /\ RiskDone
  /\ \E i \in 1..Len(momentum_events) :
       momentum_events[i].momentum_score = Int2Rat(5)
  /\ \E i \in Above5 :
       \A k \in 1..Len(momentum_clusters) :
         i \notin Range(momentum_clusters[k].events)
  /\ risk_analysis.volume_spikes = 1

\* _detect_pump_patterns has just returned
RiskReturned == pc = "results"

\* the themes of the classifier whose name contains "squeeze" or "pump"
PumpThemes == { "squeeze_play", "pump_hype" }

\* C12: new_account_ratio is 0.35 when some cluster's theme name contains
\* "squeeze" or "pump" and 0.0 otherwise; it has no other value, and events
\* outside every cluster have no influence on it.
C12_NewAccountRatio ==
  RiskReturned =>
    /\ risk_analysis.new_account_ratio \in { Int2Rat(0), Rat(35, 100) }
    /\ risk_analysis.new_account_ratio = Rat(35, 100)
         <=> \E k \in 1..Len(momentum_clusters) :
               momentum_clusters[k].theme \in PumpThemes
    /\ momentum_clusters = << >> =>
         risk_analysis.new_account_ratio = Int2Rat(0)

\* a pump-tagged event outside every cluster leaves the ratio at 0.0 although
\* other themes are clustered
C12_Witness ==
  /\ RiskReturned
  /\ Len(momentum_clusters) > 0
  /\ \A k \in 1..Len(momentum_clusters) :
       momentum_clusters[k].theme \notin PumpThemes
  /\ \E i \in 1..Len(momentum_events) :
       Range(_extract_themes(momentum_events[i])) \cap PumpThemes # { }
  /\ risk_analysis.new_account_ratio = Int2Rat(0)

\* a cluster of a squeeze or pump theme sets the ratio to 0.35
C12_WitnessPump ==
  /\ RiskReturned
  /\ \E k \in 1..Len(momentum_clusters) :
       momentum_clusters[k].theme \in PumpThemes
  /\ risk_analysis.new_account_ratio = Rat(35, 100)

Returned == pc = "done"

\* C13: the recommendation is the high-risk message when more than 3 clusters
\* span more than 2 platforms, otherwise the elevated-activity message when
\* there are more than 5 clusters, otherwise the normal-chatter message;
\* exactly 3 such clusters or exactly 5 clusters give the lower level.
C13_Recommendation ==
  Returned =>
    LET high == risk_analysis.high_risk_patterns
        found == results.clusters_found
    IN /\ high = Cardinality(Risky)
       /\ found = Len(momentum_clusters)
       /\ high > 3 => results.recommendation = "HIGH PUMP RISK"
       /\ high <= 3 /\ found > 5 => results.recommendation = "ELEVATED ACTIVITY"
       /\ high <= 3 /\ found <= 5 =>
            results.recommendation = "NORMAL MARKET CHATTER"
       /\ high = 3 => results.recommendation # "HIGH PUMP RISK"
       /\ found = 5 => results.recommendation # "ELEVATED ACTIVITY"

\* exactly 3 high-risk patterns among more than 5 clusters: elevated activity
C13_Witness ==
  /\ Returned
  /\ risk_analysis.high_risk_patterns = 3
  /\ results.clusters_found > 5
  /\ results.recommendation = "ELEVATED ACTIVITY"

\* exactly 5 clusters, none of them high-risk: normal chatter
C13_WitnessFive ==
  /\ Returned
  /\ results.clusters_found = 5
  /\ results.recommendation = "NORMAL MARKET CHATTER"

\* more than 3 high-risk patterns: the high-risk message
C13_WitnessHigh ==
  /\ Returned
  /\ risk_analysis.high_risk_patterns > 3
  /\ results.recommendation = "HIGH PUMP RISK"

\* the name under which a theme is shown: "pump_hype" as "Pump Hype"
DisplayName(theme) ==
  CASE theme = "squeeze_play" -> <<"S","q","u","e","e","z","e"," ","P","l","a","y">>
    [] theme = "pump_hype" -> <<"P","u","m","p"," ","H","y","p","e">>
    [] theme = "ma_rumor" -> <<"M","a"," ","R","u","m","o","r">>
    [] theme = "earnings_play" -> <<"E","a","r","n","i","n","g","s"," ","P","l","a","y">>
    [] theme = "biotech_catalyst" -> <<"B","i","o","t","e","c","h"," ","C","a","t","a","l","y","s","t">>
    [] theme = "crypto_momentum" -> <<"C","r","y","p","t","o"," ","M","o","m","e","n","t","u","m">>
    [] theme = "sector_tech" -> <<"S","e","c","t","o","r"," ","T","e","c","h">>
    [] theme = "sector_biotech" -> <<"S","e","c","t","o","r"," ","B","i","o","t","e","c","h">>
    [] theme = "sector_energy" -> <<"S","e","c","t","o","r"," ","E","n","e","r","g","y">>
    [] theme = "sector_finance" -> <<"S","e","c","t","o","r"," ","F","i","n","a","n","c","e">>
    [] theme = "sector_retail" -> <<"S","e","c","t","o","r"," ","R","e","t","a","i","l">>
    [] theme = "sector_crypto" -> <<"S","e","c","t","o","r"," ","C","r","y","p","t","o">>

\* the entries of theme_breakdown with the greatest total_momentum
Greatest ==
  { k \in 1..Len(theme_breakdown) :
      \A j \in 1..Len(theme_breakdown) :
        RatLeq(theme_breakdown[j].total_momentum,
               theme_breakdown[k].total_momentum) }

\* the first of them in the breakdown's iteration order
FirstGreatest == CHOOSE k \in Greatest : \A j \in Greatest : k <= j

\* C14 as stated: top_theme is the theme with the greatest total_momentum
\* (the first one on ties), and "None" when theme_breakdown is empty.
C14_TopThemeIsTheme ==
  Returned =>
    results.top_theme =
      IF Len(theme_breakdown) = 0 THEN <<"N","o","n","e">>
      ELSE ThemeChars(theme_breakdown[FirstGreatest].theme)

\* C14, amended: top_theme is the display name (underscores replaced by
\* spaces, every word capitalised) of the theme with the greatest
\* total_momentum in theme_breakdown, the first such theme in the breakdown's
\* iteration order on ties, and "None" when theme_breakdown is empty.
C14_TopTheme ==
  Returned =>
    results.top_theme =
      IF Len(theme_breakdown) = 0 THEN <<"N","o","n","e">>
      ELSE DisplayName(theme_breakdown[FirstGreatest].theme)

\* two themes tie for the greatest total_momentum and the first one is shown
C14_Witness ==
  /\ Returned
  /\ Cardinality(Greatest) >= 2
  /\ Cardinality(Greatest) < Len(theme_breakdown)
  /\ results.top_theme = DisplayName(theme_breakdown[FirstGreatest].theme)
  /\ results.top_theme # ThemeChars(theme_breakdown[FirstGreatest].theme)

\* no theme is clustered and top_theme is "None"
C14_WitnessNone ==
  /\ Returned
  /\ Len(momentum_events) > 0
  /\ Len(theme_breakdown) = 0
  /\ results.top_theme = <<"N","o","n","e">>

\* C15: a scan that yields no event still returns a well-formed result:
\* momentum_events = 0, clusters_found = 0, empty theme_breakdown and
\* platform_momentum, high_risk_patterns = coordinated_platforms =
\* volume_spikes = 0, new_account_ratio = 0.0, the normal-chatter
\* recommendation, and no AI analysis is requested.
C15_ZeroEvents ==
  Returned /\ Len(momentum_events) = 0 =>
    /\ results.momentum_events = 0
    /\ results.clusters_found = 0
    /\ results.theme_breakdown = << >>
    /\ results.platform_momentum = << >>
    /\ results.high_risk_patterns = 0
    /\ results.coordinated_platforms = 0
    /\ results.volume_spikes = 0
    /\ results.new_account_ratio = Int2Rat(0)
    /\ results.recommendation = "NORMAL MARKET CHATTER"
    /\ ~results.ai_analysis

\* every fetched post was scored and dropped, and the scan returned
C15_Witness ==
  /\ Returned
  /\ Len(scored) = MaxPosts
  /\ Len(momentum_events) = 0
  /\ results.momentum_events = 0
  /\ results.recommendation = "NORMAL MARKET CHATTER"

\* the age, in seconds, that enters a scored post's momentum: 24 hours
\* without a timestamp, at least half an hour otherwise
EffectiveAge(entry) ==
  IF entry.post.created_utc = 0 THEN 24 * 3600
  ELSE Max(entry.at - entry.post.created_utc, 1800)

\* this call scored the records of the call before, each at the same age
SameAges ==
  /\ Len(scored) = Len(previous.scored)
  /\ \A j \in 1..Len(scored) :
       /\ scored[j].post = previous.scored[j].post
       /\ EffectiveAge(scored[j]) = EffectiveAge(previous.scored[j])

\* C16 as stated: two runs of the pipeline on the identical list of raw
\* records yield identical theme_breakdown, platform_momentum and risk
\* indicators, whenever the runs are executed.
C16_Idempotent ==
  Returned /\ replay => Summary(results) = previous.summary

\* C16, amended: two runs on the identical list of raw records yield an
\* identical summary provided every post is scored at the same effective age
\* in both runs (no timestamp, or the same clamped age); a dated post is
\* scored by its age at the time of the run, so runs at different times may
\* differ.
C16_IdempotentAtSameAges ==
  Returned /\ replay /\ SameAges => Summary(results) = previous.summary

\* a later run on the same records, one of them dated, found the posts at
\* the ages of the run before and returned the same non-empty summary
C16_Witness ==
  /\ Returned
  /\ replay
  /\ SameAges
  /\ \E j \in 1..Len(scored) :
       /\ scored[j].post.created_utc # 0
       /\ scored[j].at # previous.scored[j].at
       /\ RatLess(Half, scored[j].momentum_score)
  /\ results.clusters_found > 0
  /\ Summary(results) = previous.summary

\* the events a call builds from the records fetched in it
RECURSIVE ScoredEvents(_)
ScoredEvents(log) ==
  IF Len(log) = 0 THEN << >>
  ELSE PostEvents(Head(log).post, Head(log).at) \o ScoredEvents(Tail(log))

FreshEvents ==
  ScoredEvents(scored)
  \o StockTwitsEvents([i \in DOMAIN symbol_streams |->
                         StreamPool[symbol_streams[i]]])

\* what a scanner that was never used returns on such events
FreshSummary ==
  LET events == FreshEvents
      clusters == _cluster_momentum(events)
      breakdown == _analyze_themes(clusters)
      risk == _detect_pump_patterns(clusters, events)
  IN [momentum_events |-> Len(events),
      clusters_found |-> Len(clusters),
      theme_breakdown |-> breakdown,
      platform_momentum |-> _analyze_platform_momentum(events),
      top_theme |-> _get_top_theme(breakdown),
      high_risk_patterns |-> risk.high_risk_patterns,
      coordinated_platforms |-> risk.coordinated_platforms,
      volume_spikes |-> risk.volume_spikes,
      new_account_ratio |-> risk.new_account_ratio,
      recommendation |-> Recommendation(risk, clusters)]

\* C20: no state crosses scan rounds: whatever the earlier rounds were, a
\* round scores exactly the records fetched in it, and its events, clusters
\* and summary are those of the first round of a fresh scanner over the same
\* records.
C20_NoCrossRoundState ==
  Returned =>
    /\ Len(scored) = Len(hot_posts)
    /\ \A j \in 1..Len(scored) : scored[j].post = hot_posts[j]
    /\ momentum_events = FreshEvents
    /\ momentum_clusters = _cluster_momentum(FreshEvents)
    /\ Summary(results) = FreshSummary

\* a later round over newly fetched records returned clusters
C20_Witness ==
  /\ Returned
  /\ calls > 1
  /\ ~replay
  /\ Len(hot_posts) > 0
  /\ Len(symbol_streams) > 0
  /\ results.clusters_found > 0

\* C17: a malformed raw record affects only itself: it is skipped, every
\* other record of the batch, those after it included, is still normalized,
\* and no exception propagates out of find_momentum_pumps.
C17_MalformedSkipped ==
  /\ pc # "raised"
  /\ ReturnedEvents =>
       /\ \A j \in 1..Len(hot_posts) :
            ~MomentumRaises(hot_posts[j]) =>
              \E k \in 1..Len(scored) : scored[k].post = hot_posts[j]
       /\ \A i \in 1..Len(momentum_events) :
            momentum_events[i].type = "reddit_surge" =>
              ~MomentumRaises(momentum_events[i].content)

\* the call ended with the exception before the post behind the malformed
\* record was scored
C17_Aborted ==
  /\ pc = "raised"
  /\ next_post < Len(hot_posts)
  /\ MomentumRaises(hot_posts[next_post])
  /\ ~MomentumRaises(hot_posts[next_post + 1])
  /\ results = NoResults

ModelTickers == { "GME", "BTC" }

RECURSIVE SumInts(_)
SumInts(numbers) ==
  IF numbers = << >> THEN 0 ELSE Head(numbers) + SumInts(Tail(numbers))

\* the mentions that the answer of one trending source is worth for a
\* ticker: nothing when its fetch failed
Contribution(entry, ticker) ==
  LET r == entry.returned
  IN IF entry.failed THEN 0
     ELSE SumInts([i \in 1..Len(r) |->
            CASE entry.source \in { "reddit", "fourchan" } ->
                   IF r[i].ticker = ticker THEN r[i].count ELSE 0
              [] entry.source = "investorshub" ->
                   IF TickerUpper(r[i].ticker) = ticker
                   THEN r[i].posts_today \div 10 ELSE 0
              [] entry.source = "stocktwits" ->
                   IF TickerUpper(r[i].symbol) = ticker THEN 20 ELSE 0
              [] entry.source = "bitcointalk" ->
                   IF TickerUpper(r[i].ticker) = ticker
                   THEN r[i].activity \div 5 ELSE 0])

MentionsOf(counter, ticker) ==
  SumInts([i \in 1..Len(counter) |->
             IF counter[i].ticker = ticker THEN counter[i].count ELSE 0])

\* the sources of a collect_pump_data call whose fetch returned data in time
GoodSources(ticker, outcome) ==
  { source \in Range(Futures(ticker)) : outcome[source] = "data" }

\* _find_trending_tickers has consulted all five sources, and a ticker has
\* the mentions of every source whose fetch did not fail
TrendingKept ==
  mpc = "submit" =>
    /\ Len(fetched) = 5
    /\ \A ticker \in ModelTickers :
         MentionsOf(all_tickers, ticker)
           = SumInts([i \in 1..Len(fetched) |->
                        Contribution(fetched[i], ticker)])

\* the data of a ticker has exactly the sources whose fetch returned data
\* in time
SourcesKept ==
  \A i \in 1..Len(worker) :
    worker[i].state \in { "joining", "returned" } =>
      /\ Range(worker[i].sources)
           = GoodSources(top_tickers[i].ticker, worker[i].outcome)
      /\ Len(worker[i].sources) = Cardinality(Range(worker[i].sources))

\* the collected data has exactly the tickers whose collection neither
\* raised nor timed out, each with the sources its worker collected
TickersKept ==
  mpc \in { "analyze", "report", "returned" } =>
    /\ Len(taken) = Len(top_tickers)
    /\ \A i \in 1..Len(top_tickers) :
         LET ticker == top_tickers[i].ticker
         IN /\ HasCandidate(candidate_data, ticker) <=> taken[i] = "data"
            /\ taken[i] = "data" =>
                 Candidate(candidate_data, ticker).sources = worker[i].sources

\* the report ranks every top ticker and counts, for each platform, the
\* tickers that have data of it; a scan fails only before its first fetch
StillReports ==
  /\ mpc = "returned" =>
       /\ Len(report.ticker_rankings) = Len(top_tickers)
       /\ \A source \in SourceNames :
            Cardinality({ i \in 1..Len(candidate_data) :
                            source \in Range(candidate_data[i].sources) })
              = SumInts([k \in 1..Len(report.platform_summary) |->
                   IF report.platform_summary[k].platform = source
                   THEN report.platform_summary[k].tickers ELSE 0])
  /\ mpc = "error_sleep" => fetched = << >>

\* C18: when the fetch of one source, or the collection for one ticker,
\* raises or exceeds its timeout, the contribution of that source or ticker
\* is absent from the collected data, the contributions of all the others
\* are kept, and the scan goes on to its report instead of failing.
C18_FetchFailuresIsolated ==
  /\ TrendingKept
  /\ SourcesKept
  /\ TickersKept
  /\ StillReports

\* a scan has returned its report although a trending source failed, the
\* collection for the first ticker timed out and a fetch for the second
\* ticker raised
C18_Witness ==
  /\ mpc = "returned"
  /\ \E i \in 1..Len(fetched) : fetched[i].failed
  /\ Len(top_tickers) = 2
  /\ taken = << "timeout", "data" >>
  /\ worker[2].outcome["reddit"] = "raises"
  /\ candidate_data[1].sources = Tail(Futures(top_tickers[2].ticker))
  /\ Len(report.ticker_rankings) = 2

\* a source fetch exceeded its timeout and the data of the other sources of
\* the ticker is in the report
C18_WitnessTimeout ==
  /\ mpc = "returned"
  /\ \E i \in 1..Len(worker) :
       /\ worker[i].outcome["stocktwits"] = "timeout"
       /\ taken[i] = "data"
       /\ \E k \in 1..Len(report.top_pump_candidates) :
            /\ report.top_pump_candidates[k].ticker = top_tickers[i].ticker
            /\ Len(report.top_pump_candidates[k].data_sources) >= 6
            /\ "stocktwits" \notin
                 Range(report.top_pump_candidates[k].data_sources)

\* C19: once a KeyboardInterrupt has been delivered during continuous
\* monitoring, in a scan round or in a sleep between rounds, the loop
\* stops: no further scan round is started.
C19_InterruptStops == [][interrupted => round' = round]_vars

\* ---- the StockTwits step of the Normalizer has just run
StockTwitsScanned == pc = "fourchan"

RECURSIVE Flatten(_)
Flatten(seqs) ==
  IF Len(seqs) = 0 THEN << >> ELSE Head(seqs) \o Flatten(Tail(seqs))

\* the message groups of the streams of the scan, in the order of the scan
StreamGroups ==
  Flatten([i \in DOMAIN symbol_streams |->
             _group_by_time(StreamPool[symbol_streams[i]], 30)])

\* the stocktwits events of the scan, in the order of the list
Bursts ==
  SelectSeq(momentum_events, LAMBDA e : e.platform = "stocktwits")

\* C21: every message group of more than 10 messages has a stocktwits_burst
\* event whose momentum_score is the number of its messages divided by 5.0
\* (11 messages give 2.2), and a group of 10 or fewer messages has no event.
C21_BurstMomentum ==
  StockTwitsScanned =>
    LET bursting == SelectSeq(StreamGroups, LAMBDA g : Len(g) > 10)
    IN /\ Len(Bursts) = Len(bursting)
       /\ \A k \in 1..Len(Bursts) :
            /\ Bursts[k].type = "stocktwits_burst"
            /\ Bursts[k].content = bursting[k]
            /\ Bursts[k].momentum_score = Rat(Len(bursting[k]), 5)
            /\ Len(bursting[k]) = 11 =>
                 Bursts[k].momentum_score = [n |-> 11, d |-> 5]

\* a group of exactly 11 messages gave an event of momentum 2.2
C21_Witness ==
  /\ StockTwitsScanned
  /\ \E k \in 1..Len(Bursts) :
       /\ Len(Bursts[k].content) = 11
       /\ Bursts[k].momentum_score = Rat(22, 10)

\* a group of exactly 10 messages gave no event
C21_WitnessTen ==
  /\ StockTwitsScanned
  /\ \E g \in 1..Len(StreamGroups) : Len(StreamGroups[g]) = 10
  /\ \A k \in 1..Len(Bursts) : Len(Bursts[k].content) # 10

\* ---- the 4chan step of the Normalizer has just run
FourChanScanned == pc = "cluster"

\* the 4chan events of the scan, in the order of the list
ThreadEventsFound ==
  SelectSeq(momentum_events, LAMBDA e : e.platform = "4chan")

\* C22: every thread with more than 50 replies that the 4chan source
\* provides has one event with platform '4chan' and momentum_score equal to
\* its replies divided by 25.0, and a thread with 50 or fewer replies has no
\* event.
C22_ThreadMomentum ==
  FourChanScanned =>
    LET hot == SelectSeq(pump_threads, LAMBDA thread : thread.replies > 50)
    IN /\ Len(ThreadEventsFound) = Len(hot)
       /\ \A k \in 1..Len(ThreadEventsFound) :
            /\ ThreadEventsFound[k].content = hot[k]
            /\ ThreadEventsFound[k].momentum_score = Rat(hot[k].replies, 25)

\* the source provided a thread with more than 50 replies and the
\* Normalizer returned no 4chan event
C22_NoThreadEvent ==
  /\ FourChanScanned
  /\ \E i \in 1..Len(pump_threads) : pump_threads[i].replies > 50
  /\ Len(ThreadEventsFound) = 0

\* the default of the momentum_threshold argument of find_momentum_pumps
momentum_threshold == Int2Rat(2)

\* C23: momentum_threshold is the minimum momentum score of a scan: every
\* event that find_momentum_pumps counts in momentum_events and clusters has
\* a momentum_score of at least momentum_threshold (2.0 by default).
C23_ThresholdIsMinimum ==
  ReturnedEvents =>
    \A i \in 1..Len(momentum_events) :
      RatLeq(momentum_threshold, momentum_events[i].momentum_score)

\* a scan with the default threshold returned, having counted an event with
\* a momentum_score below 2.0
C23_BelowThreshold ==
  /\ Returned
  /\ results.momentum_events = Len(momentum_events)
  /\ \E i \in 1..Len(momentum_events) :
       RatLess(momentum_events[i].momentum_score, momentum_threshold)

\* the default of the time_window_hours argument of find_momentum_pumps
time_window_hours == 6

\* the clock when the scan started
ScanStart == now - ticks * TickSeconds

\* the seconds between the creation of a dated record and the start of the
\* scan
PostAge(post) == ScanStart - post.created_utc

MessageAge(message) == ScanStart - message.created_at * 60

\* C24: time_window_hours is the time window analysed: no event of
\* find_momentum_pumps derives from content created more than
\* time_window_hours (6 by default) before the scan.
C24_WithinWindow ==
  ReturnedEvents =>
    \A i \in 1..Len(momentum_events) :
      LET e == momentum_events[i]
      IN /\ (e.platform = "reddit" /\ e.content.created_utc # 0) =>
              PostAge(e.content) <= time_window_hours * 3600
         /\ e.platform = "stocktwits" =>
              \A k \in 1..Len(e.content) :
                MessageAge(e.content[k]) <= time_window_hours * 3600

\* a scan with the default window returned an event that derives from
\* content created more than 6 hours before the scan
C24_OutsideWindow ==
  /\ Returned
  /\ \E i \in 1..Len(momentum_events) :
       /\ momentum_events[i].platform = "stocktwits"
       /\ \E k \in 1..Len(momentum_events[i].content) :
            MessageAge(momentum_events[i].content[k]) > time_window_hours * 3600

\* the reddit events of the scan, in the order of the list
RedditEvents ==
  SelectSeq(momentum_events, LAMBDA e : e.platform = "reddit")

\* the events are those of the scored posts of the list entries, in order
EventsOf(entries) ==
  /\ Len(RedditEvents) = Len(entries)
  /\ \A k \in 1..Len(RedditEvents) :
       /\ RedditEvents[k].content = entries[k].post
       /\ RedditEvents[k].momentum_score = entries[k].momentum_score

\* C25: the Normalizer discards a post if and only if its momentum is below
\* 0.5: every scored post whose momentum is at least 0.5, one of exactly 0.5
\* included, has an event.
C25_FloorInclusive ==
  EventsOf(SelectSeq(scored, LAMBDA s : RatLeq(Half, s.momentum_score)))

\* C25, amended: the Normalizer discards a post if and only if its momentum
\* is at most 0.5: every scored post whose momentum is above 0.5 has an
\* event, and a post of momentum exactly 0.5 or less has none.
C25_FloorExclusive ==
  EventsOf(SelectSeq(scored, LAMBDA s : RatLess(Half, s.momentum_score)))

\* a post of momentum exactly 0.5 was scored and dropped, and a post above
\* the floor was kept
C25_Witness ==
  /\ ReturnedEvents
  /\ \E j \in 1..Len(scored) : scored[j].momentum_score = Half
  /\ \E j \in 1..Len(scored) : RatLess(Half, scored[j].momentum_score)
  /\ Len(RedditEvents) = 1

\* the minutes between the earliest and the latest message of a group
Spread(group) ==
  LET times == { group[k].created_at : k \in 1..Len(group) }
  IN IF times = { } THEN 0
     ELSE (CHOOSE t \in times : \A u \in times : u <= t)
          - (CHOOSE t \in times : \A u \in times : t <= u)

\* C26: every group that _group_by_time(messages, minutes=30) returns, and
\* so the content of every stocktwits_burst event, holds only messages of
\* one 30-minute bucket: no two of its messages are more than 30 minutes
\* apart.
C26_WithinBucket ==
  StockTwitsScanned =>
    /\ \A g \in 1..Len(StreamGroups) : Spread(StreamGroups[g]) <= 30
    /\ \A k \in 1..Len(Bursts) : Spread(Bursts[k].content) <= 30

\* a scan returned a burst event that counts messages more than 30 minutes
\* apart
C26_WideBurst ==
  /\ Returned
  /\ \E k \in 1..Len(Bursts) : Spread(Bursts[k].content) > 30

\* the groups are a partition of the list into chunks of 20
ChunksOf(list, groups) ==
  LET all == Flatten(groups)
  IN /\ Len(all) = Len(list)
     /\ Range(all) = Range(list)
     /\ \A g \in 1..Len(groups) :
          /\ Len(groups[g]) >= 1
          /\ Len(groups[g]) <= 20
          /\ g < Len(groups) => Len(groups[g]) = 20

\* the events that count as a volume spike
Spikes ==
  { i \in 1..Len(momentum_events) :
      RatLess(Int2Rat(5), momentum_events[i].momentum_score) }

\* the messages of the symbol have been grouped
SymbolScanned == pc # "symbol"

\* C30: _group_by_time partitions its input: every message is in exactly one
\* group, no group is empty or has more than 20 messages, and every group
\* but the last has exactly 20. So every stocktwits_burst event holds 11 to
\* 20 messages, has a momentum_score from 2.2 to 4.0, and is never counted
\* as a volume spike.
C30_GroupsPartition ==
  /\ SymbolScanned =>
       /\ ChunksOf(messages, time_groups)
       /\ Len(Bursts) = Cardinality({ g \in 1..Len(time_groups) :
                                        Len(time_groups[g]) >= 11 })
  /\ \A k \in 1..Len(Bursts) :
       /\ Len(Bursts[k].content) >= 11
       /\ Len(Bursts[k].content) <= 20
       /\ RatLeq(Rat(22, 10), Bursts[k].momentum_score)
       /\ RatLeq(Bursts[k].momentum_score, Int2Rat(4))
  /\ \A i \in Spikes : momentum_events[i].platform # "stocktwits"
  /\ RiskDone => risk_analysis.volume_spikes = Cardinality(Spikes)

\* 40 messages were split into two groups of 20 with no empty third group,
\* both groups became bursts of momentum 4.0, and the scan counted no
\* volume spike
C30_Witness ==
  /\ RiskDone
  /\ Len(messages) = 40
  /\ Len(time_groups) = 2
  /\ Len(time_groups[1]) = 20
  /\ Len(time_groups[2]) = 20
  /\ Len(Bursts) = 2
  /\ \A k \in 1..Len(Bursts) : Bursts[k].momentum_score = Int2Rat(4)
  /\ risk_analysis.volume_spikes = 0

\* 41 messages were split into two groups of 20 and a last group of one
C30_WitnessRest ==
  /\ SymbolScanned
  /\ Len(messages) = 41
  /\ Len(time_groups) = 3
  /\ Len(time_groups[3]) = 1

\* the collect_pump_data workers that have not left their executor
Unfinished ==
  { i \in 1..Len(worker) : worker[i].state \notin { "returned", "raised" } }

\* every future.result(timeout=60) of the scan has returned or timed out
ResultsTaken == mpc = "join"

\* C27: collect_pump_data and find_pump_candidates eventually return even
\* if one submitted fetch task never completes: once the timeout of that
\* task has expired and the other tasks have finished, the scan goes on to
\* build its report (unless the user interrupts it) without waiting for the
\* stuck task.
C27_ReturnsDespiteStuckTask ==
  (ResultsTaken /\ Cardinality(Unfinished) <= 1)
    ~> (report # NoReport \/ interrupted)

\* the result loop of the scan is through, every collector but one has
\* returned, and that one waits in the exit of its `with` block for a fetch
\* that timed out: line 69 waits for it
C27_WaitsForStuckTask ==
  /\ ResultsTaken
  /\ Cardinality(Unfinished) = 1
  /\ \A i \in Unfinished : worker[i].state = "joining"
  /\ \E k \in 1..Len(taken) : taken[k] = "timeout"

\* the round ended with an exception that line 391 caught
RoundFailed == mpc = "error_sleep"

\* C29: in monitor_live_pumps a scan round that fails with an error other
\* than an interrupt never ends the monitoring: the loop has not stopped
\* unless the user interrupted it, and the step that follows the failure
\* and its wait is the start of another scan round, or the interrupt.
C29_ErrorKeepsMonitoring ==
  /\ [](mpc = "stopped" => interrupted)
  /\ [][RoundFailed =>
         \/ round' = round + 1 /\ mpc' = "reddit"
         \/ interrupted' /\ ~interrupted]_vars

\* the first round failed, line 392 logged it, and the second round runs
C29_Witness ==
  /\ errors = 1
  /\ round = 2
  /\ mpc = "fourchan"
  /\ ~interrupted

\* the collect_pump_data workers that have saved their report
Savers == { i \in 1..Len(worker) : worker[i].path # NoPath }

\* C28: within one find_pump_candidates scan every call of save_pump_report
\* (one for each ticker, from the collect_pump_data workers that run side
\* by side, and one for the scan report) writes to a path of its own, so
\* that no saved report is overwritten or written by two calls at once.
C28_DistinctReportPaths ==
  /\ \A i \in Savers : \A j \in Savers :
       i # j => worker[i].path # worker[j].path
  /\ \A i \in Savers : worker[i].path # report_path

\* the reports of two tickers went to one path
C28_SamePath ==
  \E i \in Savers : \E j \in Savers :
    /\ i # j
    /\ top_tickers[i].ticker # top_tickers[j].ticker
    /\ worker[i].path = worker[j].path

\* the scan report went to the path of a ticker's report
C28_ScanReportOverwrites ==
  /\ report_path # NoPath
  /\ \E i \in Savers : worker[i].path = report_path
====
